---- MODULE Spec2Model ----
(***************************************************************************)
(* A model of the content discovery and serving pipeline of                *)
(* mcp-acdc-server: the resource and prompt providers, the streaming of    *)
(* resources to the indexer, the adapter based discovery and the           *)
(* cross-reference transformer.                                            *)
(*                                                                         *)
(* Text (file contents, paths, URIs, names) is a sequence of one-character *)
(* strings, so that the string operations of the code are computed and not *)
(* assumed.                                                                *)
(***************************************************************************)
EXTENDS Integers, Sequences, FiniteSets, TLC

----------------------------------------------------------------------------
(* Text helpers: the Go strings functions the code calls.                  *)

\* s[n:] of Go (n counted from 0)
Drop(s, n) == SubSeq(s, n + 1, Len(s))

\* s[:n] of Go
Take(s, n) == SubSeq(s, 1, n)

\* strings.HasPrefix
HasPrefix(s, p) == Len(s) >= Len(p) /\ Take(s, Len(p)) = p

\* strings.HasSuffix
HasSuffix(s, p) == Len(s) >= Len(p) /\ Drop(s, Len(s) - Len(p)) = p

\* strings.Index: the 0-based place of the first occurrence of sub, or -1
Index(s, sub) ==
    LET hits == {i \in 0..(Len(s) - Len(sub)) : SubSeq(s, i + 1, i + Len(sub)) = sub}
    IN  IF hits = {} THEN -1 ELSE CHOOSE i \in hits : \A j \in hits : i <= j

\* strings.Contains
Contains(s, sub) == Index(s, sub) >= 0

\* strings.ReplaceAll(s, "\r\n", "\n"): a carriage return that a line feed
\* follows is dropped
ReplaceCRLF(s) ==
    LET keep == SelectSeq([i \in 1..Len(s) |-> i],
                          LAMBDA i : ~(s[i] = "\r" /\ i < Len(s) /\ s[i + 1] = "\n"))
    IN  [k \in 1..Len(keep) |-> s[keep[k]]]

\* the concatenation of a sequence of texts
RECURSIVE Concat(_)
Concat(ss) == IF Len(ss) = 0 THEN <<>> ELSE Head(ss) \o Concat(Tail(ss))

LF == <<"\n">>
CRLF == <<"\r", "\n">>
FrontmatterDelim == <<"-", "-", "-">>

----------------------------------------------------------------------------
(* ResourceProvider.ReadResource: the part that strips the frontmatter     *)
(* from the bytes of the file.                                             *)

\* the search of the closing delimiter in the text after the opening one
StripRemainder(contentStr, remainder) ==
    IF HasPrefix(remainder, FrontmatterDelim \o LF) THEN Drop(remainder, 4)
    ELSE LET endIndex == Index(remainder, LF \o FrontmatterDelim) IN
         IF endIndex = -1 THEN contentStr
         ELSE LET afterDelimiter == endIndex + 4 IN
              IF afterDelimiter < Len(remainder) /\ remainder[afterDelimiter + 1] = "\n"
              THEN Drop(remainder, afterDelimiter + 1)
              ELSE IF afterDelimiter >= Len(remainder) THEN <<>>
              ELSE contentStr

StripFrontmatter(contentStr) ==
    LET normalized == ReplaceCRLF(contentStr) IN
    IF ~HasPrefix(normalized, FrontmatterDelim \o LF) THEN contentStr
    ELSE StripRemainder(contentStr, Drop(normalized, 4))

----------------------------------------------------------------------------
(* Paths: the Go path/filepath functions the code calls (Unix separator).  *)

\* value bound to the name of Body's parameter, as a := declaration does
Bind(value, Body(_)) == Body(value)

Slash == <<"/">>
Dot == <<".">>
DotDot == <<".", ".">>

\* the last 0-based place of character c in s, or -1
LastIndexOf(s, c) ==
    LET hits == {i \in 1..Len(s) : s[i] = c}
    IN  IF hits = {} THEN -1 ELSE (CHOOSE i \in hits : \A j \in hits : j <= i) - 1

\* strings.Split(s, "/")
RECURSIVE SplitSlash(_)
SplitSlash(s) ==
    LET i == Index(s, Slash) IN
    IF i = -1 THEN <<s>> ELSE <<Take(s, i)>> \o SplitSlash(Drop(s, i + 1))

\* strings.Join(segs, "/")
RECURSIVE JoinSlash(_)
JoinSlash(segs) ==
    IF Len(segs) = 0 THEN <<>>
    ELSE IF Len(segs) = 1 THEN segs[1]
    ELSE segs[1] \o Slash \o JoinSlash(Tail(segs))

\* the element loop of filepath.Clean: out is the stack of kept elements
RECURSIVE CleanElems(_, _, _)
CleanElems(segs, out, rooted) ==
    IF Len(segs) = 0 THEN out
    ELSE LET e == Head(segs) IN
         IF e = <<>> \/ e = Dot THEN CleanElems(Tail(segs), out, rooted)
         ELSE IF e = DotDot
              THEN IF Len(out) > 0 /\ out[Len(out)] # DotDot
                   THEN CleanElems(Tail(segs), Take(out, Len(out) - 1), rooted)
                   ELSE IF rooted THEN CleanElems(Tail(segs), out, rooted)
                   ELSE CleanElems(Tail(segs), Append(out, e), rooted)
              ELSE CleanElems(Tail(segs), Append(out, e), rooted)

\* filepath.Clean, element by element
CleanByElems(path) ==
    IF path = <<>> THEN Dot
    ELSE LET rooted == path[1] = "/" IN
         Bind(CleanElems(SplitSlash(path), <<>>, rooted),
              LAMBDA out : IF rooted THEN Slash \o JoinSlash(out)
                           ELSE IF Len(out) = 0 THEN Dot ELSE JoinSlash(out))

\* a path in which every separator is followed by an element that does not
\* start with a dot: Clean returns it as it is
AlreadyClean(path) ==
    /\ path # <<>> /\ path[1] # "."
    /\ \A i \in 1..Len(path) :
          path[i] = "/" => i < Len(path) /\ path[i + 1] \notin {"/", "."}

\* filepath.Clean
Clean(path) == IF AlreadyClean(path) THEN path ELSE CleanByElems(path)

\* filepath.Join of two elements: empty elements are ignored, the rest is
\* joined with the separator and cleaned
Join(a, b) ==
    IF a = <<>> /\ b = <<>> THEN <<>>
    ELSE Clean(IF a = <<>> THEN b ELSE IF b = <<>> THEN a ELSE a \o Slash \o b)

\* filepath.Dir
Dir(path) == Clean(Take(path, LastIndexOf(path, "/") + 1))

\* filepath.Ext: the suffix from the last dot of the last element
Ext(path) ==
    LET base == Drop(path, LastIndexOf(path, "/") + 1)
        i == LastIndexOf(base, ".")
    IN  IF i = -1 THEN <<>> ELSE Drop(base, i)

\* strings.TrimSuffix
TrimSuffix(s, suffix) ==
    IF HasSuffix(s, suffix) THEN Take(s, Len(s) - Len(suffix)) ELSE s

\* filepath.Rel(base, path) for a path the walk of base produced
Rel(base, path) == IF path = base THEN Dot ELSE Drop(path, Len(base) + 1)

----------------------------------------------------------------------------
(* The cross-reference transformer: markdownLinkRe and the replacement     *)
(* function of NewCrossRefTransformer.                                     *)
(* markdownLinkRe: an optional bang, a bracketed text without a closing     *)
(* bracket, then in parentheses a target without space or closing          *)
(* parenthesis and an optional double-quoted title after white space.      *)

\* \s of Go's regexp syntax
IsSpace(c) == c \in {" ", "\t", "\n", "\f", "\r"}

\* the least place j >= from with s[j] = c, or 0
NextChar(s, from, c) ==
    LET hits == {j \in from..Len(s) : s[j] = c}
    IN  IF hits = {} THEN 0 ELSE CHOOSE j \in hits : \A k \in hits : j <= k

\* the least place j >= from where s[j] is not of the class (Len(s)+1 at the end):
\* the end of a greedy run of the class
RunEndTarget(s, from) ==
    LET stops == {j \in from..Len(s) : s[j] = ")" \/ IsSpace(s[j])}
    IN  IF stops = {} THEN Len(s) + 1 ELSE CHOOSE j \in stops : \A k \in stops : j <= k

RunEndSpace(s, from) ==
    LET stops == {j \in from..Len(s) : ~IsSpace(s[j])}
    IN  IF stops = {} THEN Len(s) + 1 ELSE CHOOSE j \in stops : \A k \in stops : j <= k

NoMatch == [ok |-> FALSE, last |-> 0, bang |-> FALSE, text |-> <<>>, target |-> <<>>, title |-> <<>>]

\* markdownLinkRe matched at place i of s (1-based): the submatches and the
\* place of the last character of the match
MatchAt(s, i) ==
    LET bang == i <= Len(s) /\ s[i] = "!"
        open == IF bang THEN i + 1 ELSE i
    IN  IF ~(open <= Len(s) /\ s[open] = "[") THEN NoMatch
        ELSE LET close == NextChar(s, open + 1, "]") IN
             IF close = 0 \/ ~(close + 1 <= Len(s) /\ s[close + 1] = "(") THEN NoMatch
             ELSE LET tEnd == RunEndTarget(s, close + 2) IN
                  IF tEnd = close + 2 \/ tEnd > Len(s) THEN NoMatch
                  ELSE LET base == [ok |-> TRUE, last |-> tEnd, bang |-> bang,
                                    text |-> SubSeq(s, open + 1, close - 1),
                                    target |-> SubSeq(s, close + 2, tEnd - 1),
                                    title |-> <<>>]
                       IN  IF s[tEnd] = ")" THEN base
                           ELSE LET q1 == RunEndSpace(s, tEnd) IN
                                IF ~(q1 <= Len(s) /\ s[q1] = "\"") THEN NoMatch
                                ELSE LET q2 == NextChar(s, q1 + 1, "\"") IN
                                     IF q2 = 0 \/ ~(q2 + 1 <= Len(s) /\ s[q2 + 1] = ")")
                                     THEN NoMatch
                                     ELSE [base EXCEPT !.last = q2 + 1,
                                                       !.title = SubSeq(s, tEnd, q2)]

\* the place of the leftmost match at or after from, or 0
LeftmostMatch(s, from) ==
    LET hits == {i \in from..Len(s) : MatchAt(s, i).ok}
    IN  IF hits = {} THEN 0 ELSE CHOOSE i \in hits : \A j \in hits : i <= j

\* filePathToURI of NewCrossRefTransformer: a later definition with the same
\* file path overwrites an earlier one
FilePathToURI(definitions) ==
    [fp \in {definitions[i].FilePath : i \in 1..Len(definitions)} |->
        LET last == CHOOSE i \in 1..Len(definitions) :
                        /\ definitions[i].FilePath = fp
                        /\ \A j \in 1..Len(definitions) : definitions[j].FilePath = fp => j <= i
        IN  definitions[last].URI]

SchemeSep == <<":", "/", "/">>

\* the lookup of the target joined to the directory as written, dots, double
\* dots and all
ResolveUncleaned(match, groups, definitions, currentDir) ==
    LET target == groups.target
        idx == Index(target, <<"#">>)
        fragment == IF idx >= 0 THEN Drop(target, idx) ELSE <<>>
        path == IF idx >= 0 THEN Take(target, idx) ELSE target
        resolved == currentDir \o Slash \o path
        filePathToURI == FilePathToURI(definitions)
    IN  IF resolved \notin DOMAIN filePathToURI THEN match
        ELSE <<"[">> \o groups.text \o <<"]", "(">> \o filePathToURI[resolved]
                 \o fragment \o groups.title \o <<")">>

\* the link rebuilt around the URI alone: fragment and title are lost
ResolveBare(match, groups, definitions, currentDir) ==
    LET target == groups.target
        idx == Index(target, <<"#">>)
        path == IF idx >= 0 THEN Take(target, idx) ELSE target
        resolved == Clean(Join(currentDir, path))
        filePathToURI == FilePathToURI(definitions)
    IN  IF resolved \notin DOMAIN filePathToURI THEN match
        ELSE <<"[">> \o groups.text \o <<"]", "(">> \o filePathToURI[resolved] \o <<")">>

\* the lookup that writes the resolved path into a link it does not find
ResolveOrNormalize(match, groups, definitions, currentDir) ==
    LET target == groups.target
        idx == Index(target, <<"#">>)
        fragment == IF idx >= 0 THEN Drop(target, idx) ELSE <<>>
        path == IF idx >= 0 THEN Take(target, idx) ELSE target
        resolved == Clean(Join(currentDir, path))
        filePathToURI == FilePathToURI(definitions)
    IN  <<"[">> \o groups.text \o <<"]", "(">>
            \o (IF resolved \notin DOMAIN filePathToURI THEN resolved
                ELSE filePathToURI[resolved])
            \o fragment \o groups.title \o <<")">>

\* the target of a match looked up and the link rebuilt around what is found
Resolve(match, groups, definitions, currentDir) ==
    LET target == groups.target
        idx == Index(target, <<"#">>)
        fragment == IF idx >= 0 THEN Drop(target, idx) ELSE <<>>
        path == IF idx >= 0 THEN Take(target, idx) ELSE target
        resolved == Clean(Join(currentDir, path))
        filePathToURI == FilePathToURI(definitions)
    IN  IF resolved \notin DOMAIN filePathToURI THEN match
        ELSE <<"[">> \o groups.text \o <<"]", "(">> \o filePathToURI[resolved]
                 \o fragment \o groups.title \o <<")">>

\* the function that looks every match up, whatever its target and its prefix
RewriteLinkNoSkip(match, definitions, scheme, currentDir) ==
    Resolve(match, MatchAt(match, 1), definitions, currentDir)

\* the function handed to ReplaceAllStringFunc, applied to one match
RewriteLink(match, definitions, scheme, currentDir) ==
    IF HasPrefix(match, <<"!">>) THEN match
    ELSE LET groups == MatchAt(match, 1)
             linkText == groups.text
             target == groups.target
             title == groups.title
         IN  IF HasPrefix(target, <<"#">>) THEN match
             ELSE IF HasPrefix(target, scheme \o SchemeSep) \/ Contains(target, SchemeSep)
                  THEN match
             ELSE IF Contains(target, <<":">>) THEN match
             ELSE Resolve(match, groups, definitions, currentDir)

\* ReplaceAllStringFunc: every leftmost non-overlapping match, from place from on
RECURSIVE ReplaceAllLinks(_, _, _, _, _)
ReplaceAllLinks(s, from, definitions, scheme, currentDir) ==
    LET i == LeftmostMatch(s, from) IN
    IF i = 0 THEN SubSeq(s, from, Len(s))
    ELSE LET m == MatchAt(s, i) IN
         SubSeq(s, from, i - 1)
             \o RewriteLink(SubSeq(s, i, m.last), definitions, scheme, currentDir)
             \o ReplaceAllLinks(s, m.last + 1, definitions, scheme, currentDir)

\* the transformer that resolves a target against the path of the current
\* document instead of its directory
CrossRefTransformNoDir(definitions, scheme, content, currentDef) ==
    ReplaceAllLinks(content, 1, definitions, scheme, currentDef.FilePath)

\* the ContentTransformer NewCrossRefTransformer(definitions, scheme) returns
CrossRefTransform(definitions, scheme, content, currentDef) ==
    ReplaceAllLinks(content, 1, definitions, scheme, Dir(currentDef.FilePath))

----------------------------------------------------------------------------
(* Bounds of the model and the small world the inputs are drawn from.      *)

\* the most definitions a provider is built from
MaxDefs == 3
\* the most prompt definitions a provider is built from
MaxPrompts == 2
\* the largest capacity of the channel StreamResources sends on
MaxChanCap == 1

Digit(i) == <<"0", "1", "2", "3", "4", "5", "6", "7", "8", "9">>[i + 1]

MdExt == <<".", "m", "d">>

\* the scheme the discovery code writes into every URI
DefaultScheme == <<"a", "c", "d", "c">>

\* fmt.Sprintf("acdc://%s/%s", location.Name, uriPath) with
\* uriPath = ToSlash(TrimSuffix(relPath, Ext(relPath)))
ResourceURI(locationName, relPath) ==
    DefaultScheme \o SchemeSep \o locationName \o Slash \o TrimSuffix(relPath, Ext(relPath))

----------------------------------------------------------------------------
(* State.                                                                  *)

VARIABLES
    files,              \* the readable files of the disk: path -> bytes
    definitions,        \* ResourceProvider.definitions
    uriMap,             \* ResourceProvider.uriMap
    hasTransformer,     \* whether the provider was given a content transformer
    promptDefinitions,  \* PromptProvider.definitions
    nameMap,            \* PromptProvider.nameMap
    lastCall,           \* the last provider call of the serving layer and its result
    opened,             \* the paths handed to os.ReadFile by the last call
    spc,                \* where StreamResources stands: idle, check, read, send, done
    sidx,               \* the place in definitions of the loop of StreamResources
    sdoc,               \* the Document the loop built and has not sent yet
    sresult,            \* what StreamResources returned: none yet, nil, canceled
    ctxDone,            \* whether the context is cancelled
    chanCap,            \* the capacity of the channel
    ch,                 \* the Documents buffered in the channel
    consumerActive,     \* whether the consumer still receives from the channel
    sent,               \* every Document sent on the channel, in order
    readOk,             \* the places whose read succeeded in the loop
    cancelAt,           \* where StreamResources stood when the context was cancelled
    readAfterCancel,    \* the places the loop read once the context was cancelled
    tokens,             \* the constructs the body of the document under test was written from
    locations,          \* the configured content locations, in order
    fsys,               \* the directories and files under the locations' base paths
    resDiscovery,       \* what the last DiscoverResourcesWithAdapters returned
    promptDiscovery,    \* what the last DiscoverPromptsWithAdapters returned
    scheme,             \* the identifier scheme of the configuration
    authSettings        \* the authentication settings the middleware was made from

provVars == <<files, definitions, uriMap, hasTransformer, promptDefinitions, nameMap>>
callVars == <<lastCall, opened>>
streamVars == <<spc, sidx, sdoc, sresult, ctxDone, chanCap, ch, consumerActive, sent,
                readOk, cancelAt, readAfterCancel>>
envVars == <<tokens, locations, fsys, resDiscovery, promptDiscovery, scheme, authSettings>>
vars == <<provVars, callVars, streamVars, envVars>>

----------------------------------------------------------------------------
(* The resource provider.                                                  *)

\* NewResourceProvider: uriMap[d.URI] = d for each definition in order, so the
\* the map in which the first definition of a URI stays
NewUriMapFirstWins(defs) ==
    [u \in {defs[i].URI : i \in 1..Len(defs)} |->
        defs[CHOOSE i \in 1..Len(defs) :
                /\ defs[i].URI = u
                /\ \A j \in 1..Len(defs) : defs[j].URI = u => i <= j]]

\* last definition of a URI stays
NewUriMap(defs) ==
    [u \in {defs[i].URI : i \in 1..Len(defs)} |->
        defs[CHOOSE i \in 1..Len(defs) :
                /\ defs[i].URI = u
                /\ \A j \in 1..Len(defs) : defs[j].URI = u => j <= i]]

\* the content transformer option of the provider, applied to a body
ApplyTransformer(body, defn) ==
    IF hasTransformer THEN CrossRefTransform(definitions, DefaultScheme, body, defn)
    ELSE body

NoCall == [op |-> "none"]

\* ReadResource without the test of the lookup: the zero definition is read
ReadResourceNoCheck(uri) ==
    LET defn == IF uri \in DOMAIN uriMap THEN uriMap[uri] ELSE [FilePath |-> <<>>] IN
    IF defn.FilePath \notin DOMAIN files
    THEN [content |-> <<>>, err |-> "read error", opened |-> <<defn.FilePath>>]
    ELSE [content |-> ApplyTransformer(StripFrontmatter(files[defn.FilePath]), defn),
          err |-> "nil", opened |-> <<defn.FilePath>>]

\* ReadResource(uri): the returned content and error, and the files it opened
ReadResource(uri) ==
    IF uri \notin DOMAIN uriMap
    THEN [content |-> <<>>, err |-> "unknown resource", opened |-> <<>>]
    ELSE LET defn == uriMap[uri] IN
         IF defn.FilePath \notin DOMAIN files
         THEN [content |-> <<>>, err |-> "read error", opened |-> <<defn.FilePath>>]
         ELSE [content |-> ApplyTransformer(StripFrontmatter(files[defn.FilePath]), defn),
               err |-> "nil", opened |-> <<defn.FilePath>>]

\* the list with the last definition first
ListResourcesNewestFirst ==
    [i \in 1..Len(definitions) |->
        [URI |-> definitions[Len(definitions) + 1 - i].URI,
         Name |-> definitions[Len(definitions) + 1 - i].Name]]

\* ListResources(): one mcp.Resource per definition, in order
ListResources ==
    [i \in 1..Len(definitions) |->
        [URI |-> definitions[i].URI, Name |-> definitions[i].Name]]

----------------------------------------------------------------------------
(* The prompt provider.                                                    *)

\* NewPromptProvider: nameMap[d.Name] = d for each definition in order
NewNameMap(defs) ==
    [n \in {defs[i].Name : i \in 1..Len(defs)} |->
        defs[CHOOSE i \in 1..Len(defs) :
                /\ defs[i].Name = n
                /\ \A j \in 1..Len(defs) : defs[j].Name = n => j <= i]]

\* Template.Execute(&buf, arguments) of a template parsed with missingkey=zero:
\* a template is a sequence of literal texts and of fields of the argument map
RECURSIVE ExecuteTemplate(_, _)
ExecuteTemplate(tmpl, arguments) ==
    IF Len(tmpl) = 0 THEN <<>>
    ELSE LET t == Head(tmpl)
             piece == IF t.kind = "text" THEN t.text
                      ELSE IF t.field \in DOMAIN arguments THEN arguments[t.field]
                      ELSE <<>>
         IN  piece \o ExecuteTemplate(Tail(tmpl), arguments)

\* the validation that accepts a required argument sent as the empty string
ArgumentMissingAbsentOnly(defn, arguments, j) ==
    /\ defn.Arguments[j].Required
    /\ defn.Arguments[j].Name \notin DOMAIN arguments

\* whether the argument at place j of the definition fails the validation
ArgumentMissing(defn, arguments, j) ==
    /\ defn.Arguments[j].Required
    /\ \/ defn.Arguments[j].Name \notin DOMAIN arguments
       \/ arguments[defn.Arguments[j].Name] = <<>>

\* GetPrompt(name, arguments): the rendered text and the error; validated are
\* the arguments the validation loop looked at, executed whether the template ran
GetPrompt(name, arguments) ==
    IF name \notin DOMAIN nameMap
    THEN [text |-> <<>>, err |-> "unknown prompt", validated |-> <<>>, executed |-> FALSE]
    ELSE LET defn == nameMap[name]
             bad == {j \in 1..Len(defn.Arguments) : ArgumentMissing(defn, arguments, j)}
         IN  IF bad # {}
             THEN LET first == CHOOSE j \in bad : \A k \in bad : j <= k IN
                  [text |-> <<>>, err |-> "missing required argument",
                   validated |-> [j \in 1..first |-> defn.Arguments[j].Name],
                   executed |-> FALSE]
             ELSE [text |-> ExecuteTemplate(defn.Template, arguments), err |-> "nil",
                   validated |-> [j \in 1..Len(defn.Arguments) |-> defn.Arguments[j].Name],
                   executed |-> TRUE]

\* ListPrompts(): one mcp.Prompt per definition, in order
ListPrompts ==
    [i \in 1..Len(promptDefinitions) |->
        [Name |-> promptDefinitions[i].Name, Arguments |-> promptDefinitions[i].Arguments]]

----------------------------------------------------------------------------
(* The inputs of the serving specification.                                *)

SourceName == <<"s">>
BasePath == <<"/", "c">>
ACDCResourcesDir == <<"r", "e", "s", "o", "u", "r", "c", "e", "s">>
ACDCPromptsDir == <<"p", "r", "o", "m", "p", "t", "s">>

\* the path, relative to the resources directory, of the k-th file of the world:
\* the even ones lie in a subdirectory
RelPathOf(k) ==
    IF k % 2 = 0 THEN <<"g", "/", Digit(k)>> \o MdExt ELSE <<Digit(k)>> \o MdExt

FilePathOf(k) == Join(Join(BasePath, ACDCResourcesDir), RelPathOf(k))

Header == FrontmatterDelim \o LF \o <<"n", ":", "x">> \o LF \o FrontmatterDelim \o LF

BodyOf(k) == <<"b", Digit(k)>>

\* the definition of file k that carries the URI of file u (u = k in what
\* discovery produces; a provider can be built from any list)
ResDef(k, u) ==
    [URI |-> ResourceURI(SourceName, RelPathOf(u)), Name |-> <<"n", Digit(k)>>,
     FilePath |-> FilePathOf(k), Keywords |-> <<Digit(k)>>, Source |-> SourceName]

\* the definition lists: file i at place i, with its own URI or that of file 1
DefinitionLists ==
    UNION {{[i \in 1..n |-> ResDef(i, IF own[i] THEN i ELSE 1)] : own \in [1..n -> BOOLEAN]}
            : n \in 0..MaxDefs}

ArgNames == {"x", "y"}
ArgValues == {<<>>, <<"v">>}

\* every argument map a caller can send
ArgumentMaps == UNION {[D -> ArgValues] : D \in SUBSET ArgNames}

TextTok(t) == [kind |-> "text", text |-> t]
FieldTok(f) == [kind |-> "field", field |-> f]

PromptName(base) == SourceName \o <<":">> \o base

PromptPool ==
    { [Name |-> PromptName(<<"p">>),
       Arguments |-> <<[Name |-> "x", Required |-> TRUE], [Name |-> "y", Required |-> FALSE]>>,
       Template |-> <<TextTok(<<"h">>), FieldTok("x"), FieldTok("y")>>, Source |-> SourceName],
      [Name |-> PromptName(<<"q">>), Arguments |-> <<>>,
       Template |-> <<TextTok(<<"k">>)>>, Source |-> SourceName],
      [Name |-> PromptName(<<"p">>),
       Arguments |-> <<[Name |-> "y", Required |-> TRUE]>>,
       Template |-> <<TextTok(<<"j">>), FieldTok("y")>>, Source |-> SourceName] }

\* the lists of distinct prompt definitions of the pool
PromptLists ==
    UNION {{l \in [1..n -> PromptPool] : \A i, j \in 1..n : i # j => l[i] # l[j]}
            : n \in 0..MaxPrompts}

UnknownURI == DefaultScheme \o SchemeSep \o <<"n", "o", "n", "e">>
UnknownPrompt == PromptName(<<"z">>)

----------------------------------------------------------------------------
(* The serving specification: a provider built from a definition list and  *)
(* the calls of the serving layer.                                         *)

NoDoc == [URI |-> <<>>]
NoCancel == [pc |-> "none", idx |-> 0, sent |-> 0]

NoDiscovery == [called |-> FALSE]

\* settings.Type "none": no authentication
NoAuth == [Type |-> "none"]

\* nothing is configured and no discovery has run
EnvIdle ==
    /\ tokens = <<>> /\ locations = <<>> /\ fsys = <<>>
    /\ resDiscovery = NoDiscovery /\ promptDiscovery = NoDiscovery
    /\ scheme = DefaultScheme
    /\ authSettings = NoAuth

StreamIdle ==
    /\ spc = "idle" /\ sidx = 0 /\ sdoc = NoDoc /\ sresult = "none"
    /\ ctxDone = FALSE /\ chanCap = 0 /\ ch = <<>> /\ consumerActive = TRUE
    /\ sent = <<>> /\ readOk = {} /\ cancelAt = NoCancel /\ readAfterCancel = {}

\* the disk on which every file of the definitions is readable
DiskOf(defs) ==
    [fp \in {defs[i].FilePath : i \in 1..Len(defs)} |->
        Header \o BodyOf(CHOOSE k \in 1..Len(defs) : FilePathOf(k) = fp)]

\* NewResourceProvider(defs) and NewPromptProvider(pdefs)
ProviderBuilt(defs, pdefs) ==
    /\ definitions = defs
    /\ uriMap = NewUriMap(defs)
    /\ promptDefinitions = pdefs
    /\ nameMap = NewNameMap(pdefs)

Init ==
    /\ \E defs \in DefinitionLists, pdefs \in PromptLists :
          /\ ProviderBuilt(defs, pdefs)
          /\ files = DiskOf(defs)
    /\ hasTransformer = FALSE
    /\ lastCall = NoCall
    /\ opened = <<>>
    /\ StreamIdle
    /\ EnvIdle

\* a file is removed from the disk, or made unreadable
RemoveFile ==
    /\ \E fp \in DOMAIN files : files' = [q \in DOMAIN files \ {fp} |-> files[q]]
    /\ UNCHANGED <<definitions, uriMap, hasTransformer, promptDefinitions, nameMap>>
    /\ UNCHANGED <<callVars, streamVars, envVars>>

\* the call that remembers in the lookup table a URI it did not find
ReadResourceCallCaching ==
    /\ \E uri \in DOMAIN uriMap \cup {UnknownURI} :
          LET r == ReadResource(uri) IN
          /\ lastCall' = [op |-> "ReadResource", uri |-> uri,
                          content |-> r.content, err |-> r.err]
          /\ opened' = r.opened
          /\ uriMap' = IF r.err = "unknown resource"
                       THEN [u \in DOMAIN uriMap \cup {uri} |->
                                IF u = uri THEN [URI |-> uri, FilePath |-> <<>>]
                                ELSE uriMap[u]]
                       ELSE uriMap
    /\ UNCHANGED <<files, definitions, hasTransformer, promptDefinitions, nameMap>>
    /\ UNCHANGED <<streamVars, envVars>>

ReadResourceCall ==
    /\ \E uri \in DOMAIN uriMap \cup {UnknownURI} :
          LET r == ReadResource(uri) IN
          /\ lastCall' = [op |-> "ReadResource", uri |-> uri,
                          content |-> r.content, err |-> r.err]
          /\ opened' = r.opened
    /\ UNCHANGED <<provVars, streamVars, envVars>>

GetPromptCall ==
    /\ \E name \in DOMAIN nameMap \cup {UnknownPrompt}, arguments \in ArgumentMaps :
          LET r == GetPrompt(name, arguments) IN
          lastCall' = [op |-> "GetPrompt", name |-> name, arguments |-> arguments,
                       text |-> r.text, err |-> r.err,
                       validated |-> r.validated, executed |-> r.executed]
    /\ opened' = <<>>
    /\ UNCHANGED <<provVars, streamVars, envVars>>

ListResourcesCall ==
    /\ lastCall' = [op |-> "ListResources", result |-> ListResources]
    /\ opened' = <<>>
    /\ UNCHANGED <<provVars, streamVars, envVars>>

ListPromptsCall ==
    /\ lastCall' = [op |-> "ListPrompts", result |-> ListPrompts]
    /\ opened' = <<>>
    /\ UNCHANGED <<provVars, streamVars, envVars>>

Next ==
    \/ ReadResourceCall
    \/ GetPromptCall
    \/ ListResourcesCall
    \/ ListPromptsCall
    \/ RemoveFile

Spec == Init /\ [][Next]_vars

----------------------------------------------------------------------------
(* The streaming specification: StreamResources as a process that sends on *)
(* a channel, the consumer of the channel and the owner of the context.    *)

InitStream ==
    /\ \E defs \in DefinitionLists :
          /\ ProviderBuilt(defs, <<>>)
          /\ files = DiskOf(defs)
    /\ hasTransformer = FALSE
    /\ lastCall = NoCall
    /\ opened = <<>>
    /\ spc = "idle" /\ sidx = 0 /\ sdoc = NoDoc /\ sresult = "none"
    /\ ctxDone = FALSE /\ ch = <<>> /\ consumerActive = TRUE
    /\ chanCap \in 0..MaxChanCap
    /\ sent = <<>> /\ readOk = {} /\ cancelAt = NoCancel /\ readAfterCancel = {}
    /\ EnvIdle

StreamRunning == spc \in {"check", "read", "send"}

\* the call of StreamResources(ctx, ch)
StreamStart ==
    /\ spc = "idle"
    /\ spc' = "check"
    /\ sidx' = 1
    /\ UNCHANGED <<sdoc, sresult, ctxDone, chanCap, ch, consumerActive, sent, readOk,
                   cancelAt, readAfterCancel>>
    /\ UNCHANGED <<provVars, callVars, envVars>>

\* the head of the loop without the select on ctx.Done()
StreamCheckNoCtx ==
    /\ spc = "check"
    /\ IF sidx > Len(definitions)
       THEN spc' = "done" /\ sresult' = "nil"
       ELSE spc' = "read" /\ sresult' = sresult
    /\ UNCHANGED <<sidx, sdoc, ctxDone, chanCap, ch, consumerActive, sent, readOk,
                   cancelAt, readAfterCancel>>
    /\ UNCHANGED <<provVars, callVars, envVars>>

\* the head of the loop: the end of the range, then the select with a default
StreamCheck ==
    /\ spc = "check"
    /\ IF sidx > Len(definitions)
       THEN spc' = "done" /\ sresult' = "nil"
       ELSE IF ctxDone
            THEN spc' = "done" /\ sresult' = "canceled"
            ELSE spc' = "read" /\ sresult' = sresult
    /\ UNCHANGED <<sidx, sdoc, ctxDone, chanCap, ch, consumerActive, sent, readOk,
                   cancelAt, readAfterCancel>>
    /\ UNCHANGED <<provVars, callVars, envVars>>

\* the read of the loop with a failure returned instead of skipped
StreamReadAbort ==
    /\ spc = "read"
    /\ LET defn == definitions[sidx]
           r == ReadResource(defn.URI)
       IN  IF r.err # "nil"
           THEN /\ spc' = "done"
                /\ sresult' = "read error"
                /\ UNCHANGED <<sidx, sdoc, readOk>>
           ELSE /\ spc' = "send"
                /\ sdoc' = [URI |-> defn.URI, Name |-> defn.Name, Content |-> r.content,
                            Keywords |-> defn.Keywords, Source |-> defn.Source]
                /\ readOk' = readOk \cup {sidx}
                /\ sidx' = sidx
                /\ sresult' = sresult
    /\ readAfterCancel' = IF ctxDone THEN readAfterCancel \cup {sidx} ELSE readAfterCancel
    /\ UNCHANGED <<ctxDone, chanCap, ch, consumerActive, sent, cancelAt>>
    /\ UNCHANGED <<provVars, callVars, envVars>>

\* p.ReadResource(defn.URI): a failure is logged and the loop continues
StreamRead ==
    /\ spc = "read"
    /\ LET defn == definitions[sidx]
           r == ReadResource(defn.URI)
       IN  IF r.err # "nil"
           THEN /\ spc' = "check"
                /\ sidx' = sidx + 1
                /\ UNCHANGED <<sdoc, readOk>>
           ELSE /\ spc' = "send"
                /\ sdoc' = [URI |-> defn.URI, Name |-> defn.Name, Content |-> r.content,
                            Keywords |-> defn.Keywords, Source |-> defn.Source]
                /\ readOk' = readOk \cup {sidx}
                /\ sidx' = sidx
    /\ readAfterCancel' = IF ctxDone THEN readAfterCancel \cup {sidx} ELSE readAfterCancel
    /\ UNCHANGED <<sresult, ctxDone, chanCap, ch, consumerActive, sent, cancelAt>>
    /\ UNCHANGED <<provVars, callVars, envVars>>

\* whether a send on the channel can proceed: room in the buffer, or a receiver
\* waiting on an unbuffered channel
CanSend == Len(ch) < chanCap \/ (chanCap = 0 /\ consumerActive)

\* the send of a loop that looks at the context before its first iteration
\* only: after a send the next definition is read at once
StreamSendThenRead ==
    /\ spc = "send"
    /\ CanSend
    /\ ch' = IF chanCap = 0 THEN ch ELSE Append(ch, sdoc)
    /\ sent' = Append(sent, sdoc)
    /\ sdoc' = NoDoc
    /\ sidx' = sidx + 1
    /\ spc' = IF sidx + 1 > Len(definitions) THEN "check" ELSE "read"
    /\ UNCHANGED <<sresult, ctxDone, chanCap, consumerActive, readOk, cancelAt,
                   readAfterCancel>>
    /\ UNCHANGED <<provVars, callVars, envVars>>

\* the second select, case ch <- doc
StreamSend ==
    /\ spc = "send"
    /\ CanSend
    /\ ch' = IF chanCap = 0 THEN ch ELSE Append(ch, sdoc)
    /\ sent' = Append(sent, sdoc)
    /\ sdoc' = NoDoc
    /\ sidx' = sidx + 1
    /\ spc' = "check"
    /\ UNCHANGED <<sresult, ctxDone, chanCap, consumerActive, readOk, cancelAt,
                   readAfterCancel>>
    /\ UNCHANGED <<provVars, callVars, envVars>>

\* the second select, case <-ctx.Done()
StreamSendCancelled ==
    /\ spc = "send"
    /\ ctxDone
    /\ spc' = "done"
    /\ sresult' = "canceled"
    /\ UNCHANGED <<sidx, sdoc, ctxDone, chanCap, ch, consumerActive, sent, readOk,
                   cancelAt, readAfterCancel>>
    /\ UNCHANGED <<provVars, callVars, envVars>>

\* the owner of the context cancels it
Cancel ==
    /\ ~ctxDone
    /\ ctxDone' = TRUE
    /\ cancelAt' = [pc |-> spc, idx |-> sidx, sent |-> Len(sent)]
    /\ UNCHANGED <<spc, sidx, sdoc, sresult, chanCap, ch, consumerActive, sent, readOk,
                   readAfterCancel>>
    /\ UNCHANGED <<provVars, callVars, envVars>>

\* the consumer takes a Document out of the buffer
Receive ==
    /\ consumerActive
    /\ Len(ch) > 0
    /\ ch' = Tail(ch)
    /\ UNCHANGED <<spc, sidx, sdoc, sresult, ctxDone, chanCap, consumerActive, sent, readOk,
                   cancelAt, readAfterCancel>>
    /\ UNCHANGED <<provVars, callVars, envVars>>

\* the consumer stops receiving
ConsumerStop ==
    /\ consumerActive
    /\ consumerActive' = FALSE
    /\ UNCHANGED <<spc, sidx, sdoc, sresult, ctxDone, chanCap, ch, sent, readOk,
                   cancelAt, readAfterCancel>>
    /\ UNCHANGED <<provVars, callVars, envVars>>

StreamStep ==
    \/ StreamStart
    \/ StreamCheck
    \/ StreamRead
    \/ StreamSend
    \/ StreamSendCancelled

NextStream ==
    \/ StreamStart
    \/ StreamCheck
    \/ StreamRead
    \/ StreamSend
    \/ StreamSendCancelled
    \/ Cancel
    \/ Receive
    \/ ConsumerStop
    \/ RemoveFile

SpecStream == InitStream /\ [][NextStream]_vars

\* the definition lists discovery produces: every file with its own URI
DiscoveredLists == {[i \in 1..n |-> ResDef(i, i)] : n \in 0..MaxDefs}

InitStreamFair ==
    /\ InitStream
    /\ definitions \in DiscoveredLists

\* the goroutine that runs StreamResources is scheduled as long as it can step
FairSpecStream == InitStreamFair /\ [][NextStream]_vars /\ WF_vars(StreamStep)

----------------------------------------------------------------------------
(* Claims about the providers.                                             *)

KnownURIs == {definitions[i].URI : i \in 1..Len(definitions)}
KnownPromptNames == {promptDefinitions[i].Name : i \in 1..Len(promptDefinitions)}

\* C1: a lookup of a key that no definition carries fails with the not-found
\* error and does nothing else: ReadResource opens no file and returns no
\* content, GetPrompt validates no argument and executes no template.
C1_AbsentKeyNotFound ==
    /\ (lastCall.op = "ReadResource" /\ lastCall.uri \notin KnownURIs) =>
          /\ lastCall.err = "unknown resource"
          /\ lastCall.content = <<>>
          /\ opened = <<>>
    /\ (lastCall.op = "GetPrompt" /\ lastCall.name \notin KnownPromptNames) =>
          /\ lastCall.err = "unknown prompt"
          /\ lastCall.text = <<>>
          /\ lastCall.validated = <<>>
          /\ ~lastCall.executed

\* an unknown URI was read from a provider that has definitions and files
C1_Witness ==
    /\ lastCall.op = "ReadResource"
    /\ lastCall.uri \notin KnownURIs
    /\ Len(definitions) > 0
    /\ DOMAIN files # {}
    /\ lastCall.err = "unknown resource"

----------------------------------------------------------------------------
(* Claims about StreamResources.                                           *)

\* the places whose Document has been sent: read with success and passed
SentPlaces ==
    SelectSeq([i \in 1..Len(definitions) |-> i], LAMBDA i : i \in readOk /\ i < sidx)

\* C4: a failed read never ends StreamResources: the loop returns only at the
\* end of the definitions (nil) or on cancellation, the Documents sent are,
\* in definition order, exactly one for each definition whose read succeeded,
\* and without cancellation the result is nil with every definition processed.
C4_ReadFailureSkipped ==
    /\ sresult \in {"none", "nil", "canceled"}
    /\ sresult = "canceled" => ctxDone
    /\ sresult = "nil" => sidx = Len(definitions) + 1
    /\ (spc = "done" /\ ~ctxDone) => sresult = "nil"
    /\ spc # "send" =>
          /\ Len(sent) = Len(SentPlaces)
          /\ \A k \in 1..Len(sent) :
                /\ sent[k].URI = definitions[SentPlaces[k]].URI
                /\ sent[k].Name = definitions[SentPlaces[k]].Name

\* the stream ended without cancellation, a read failed and a later one was sent
C4_Witness ==
    /\ spc = "done" /\ sresult = "nil" /\ ~ctxDone
    /\ \E i, j \in 1..Len(definitions) : i < j /\ i \notin readOk /\ j \in readOk
    /\ Len(sent) > 0

\* C5 as stated: once the context is cancelled while an iteration of
\* StreamResources is in progress, the call returns the cancellation error.
C5_CancelReturnsError ==
    (spc = "done" /\ cancelAt.pc \in {"read", "send"}) => sresult = "canceled"

\* C5, amended: after a cancellation StreamResources returns even when the
\* consumer never receives again; it reads no definition after the one in
\* progress, and it returns the cancellation error unless the cancellation
\* arrived within the iteration of the last definition or after the loop,
\* when it may return nil.
C5_CancelEndsStream ==
    /\ [](/\ readAfterCancel # {} =>
                cancelAt.pc = "read" /\ readAfterCancel = {cancelAt.idx}
          /\ (spc = "done" /\ cancelAt.pc \in {"check", "read", "send"}
                 /\ sresult # "canceled") =>
                /\ sresult = "nil"
                /\ cancelAt.idx >= Len(definitions)
                /\ cancelAt.pc = "check" => cancelAt.idx > Len(definitions))
    /\ (ctxDone /\ StreamRunning) ~> (spc = "done")

\* a send that could not proceed was released by the cancellation, with
\* definitions left unprocessed
C5_Witness ==
    /\ spc = "done" /\ sresult = "canceled"
    /\ sdoc # NoDoc
    /\ ~consumerActive /\ ~CanSend
    /\ cancelAt.pc = "send"
    /\ sidx < Len(definitions)

----------------------------------------------------------------------------
(* The reading specification: one resource whose file on disk is any text  *)
(* built from a delimiter line, metadata lines, a closing delimiter line   *)
(* and body lines, or from body lines alone, with either line ending.      *)

MaxMetaLines == 2
MaxBodyLines == 2

\* the lines of a metadata block (none of them is a delimiter line)
MetaLinePool == {<<"n", ":", "x">>, <<"t", ":", "y">>}

\* the lines of a body: text, a blank line, a horizontal rule
BodyLinePool == {<<"b">>, <<>>, FrontmatterDelim}

LineEndings == {LF, CRLF}

RECURSIVE JoinLines(_, _)
\* every line followed by the line ending
JoinLines(lines, eol) ==
    IF lines = <<>> THEN <<>>
    ELSE Head(lines) \o eol \o JoinLines(Tail(lines), eol)

\* the body text of body lines: the last line ends the file, or has a line ending
BodyText(lines, eol, final) ==
    IF lines = <<>> THEN <<>>
    ELSE IF final THEN JoinLines(lines, eol)
    ELSE JoinLines(SubSeq(lines, 1, Len(lines) - 1), eol) \o lines[Len(lines)]

SeqsUpTo(S, n) == UNION {[1..k -> S] : k \in 0..n}

\* the files with a header: the closing delimiter line ends with a line ending,
\* or ends the file (and then the body is empty)
FramedShapes ==
    {[framed |-> TRUE, heol |-> he, meta |-> m, closed |-> TRUE,
      beol |-> be, body |-> b, final |-> f] :
        he \in LineEndings, m \in SeqsUpTo(MetaLinePool, MaxMetaLines),
        be \in LineEndings, b \in SeqsUpTo(BodyLinePool, MaxBodyLines), f \in BOOLEAN}
    \cup
    {[framed |-> TRUE, heol |-> he, meta |-> m, closed |-> FALSE,
      beol |-> LF, body |-> <<>>, final |-> FALSE] :
        he \in LineEndings, m \in SeqsUpTo(MetaLinePool, MaxMetaLines)}

\* the files with no leading delimiter line
PlainShapes ==
    {[framed |-> FALSE, heol |-> LF, meta |-> <<>>, closed |-> FALSE,
      beol |-> be, body |-> b, final |-> f] :
        be \in LineEndings,
        b \in {l \in SeqsUpTo(BodyLinePool, MaxBodyLines) :
                  l # <<>> => l[1] # FrontmatterDelim},
        f \in BOOLEAN}

FileShapes == FramedShapes \cup PlainShapes

ShapeBody(sh) == BodyText(sh.body, sh.beol, sh.final)

ShapeHeader(sh) ==
    IF ~sh.framed THEN <<>>
    ELSE FrontmatterDelim \o sh.heol \o JoinLines(sh.meta, sh.heol) \o FrontmatterDelim
         \o (IF sh.closed THEN sh.heol ELSE <<>>)

\* the bytes of the file
Render(sh) == ShapeHeader(sh) \o ShapeBody(sh)

ReadDef == ResDef(1, 1)

InitRead ==
    /\ ProviderBuilt(<<ReadDef>>, <<>>)
    /\ \E sh \in FileShapes : files = (ReadDef.FilePath :> Render(sh))
    /\ hasTransformer = FALSE
    /\ lastCall = NoCall
    /\ opened = <<>>
    /\ StreamIdle
    /\ EnvIdle

NextRead == ReadResourceCall \/ RemoveFile

SpecRead == InitRead /\ [][NextRead]_vars

\* the shapes of the file that the last ReadResource read
ShapesRead ==
    IF lastCall.op = "ReadResource" /\ lastCall.err = "nil"
       /\ ReadDef.FilePath \in DOMAIN files
    THEN {sh \in FileShapes : Render(sh) = files[ReadDef.FilePath]}
    ELSE {}

\* C2: for a known URI whose file is delimiter line, metadata block, closing
\* delimiter line, body, ReadResource returns exactly the body that follows the
\* closing delimiter line; for a file with no leading delimiter line it returns
\* the whole file unchanged.
C2_ReadReturnsBody ==
    \A sh \in ShapesRead :
        lastCall.content = (IF sh.framed THEN ShapeBody(sh) ELSE Render(sh))

\* what ReadResource does return for those files: the body with every CRLF
\* turned into LF, except that a file made of two delimiter lines whose second
\* has no line ending is returned whole; a file with no leading delimiter line
\* is returned unchanged
C2_ReadReturnsNormalizedBody ==
    \A sh \in ShapesRead :
        lastCall.content =
            (IF ~sh.framed THEN Render(sh)
             ELSE IF sh.meta = <<>> /\ ~sh.closed THEN Render(sh)
             ELSE ReplaceCRLF(ShapeBody(sh)))

\* a file with CRLF line endings, a header and a body of two lines was read
C2_Witness ==
    \E sh \in ShapesRead :
        sh.framed /\ sh.beol = CRLF /\ Len(sh.body) = 2 /\ sh.meta # <<>>


----------------------------------------------------------------------------
(* The cross-reference specification: the discovered definitions of files  *)
(* 1..n, of which the first or the second has a body written from text and *)
(* link constructs;                                                        *)
(* the provider is built with or without the cross-reference transformer.  *)

MaxLinks == 2

\* the files a link of the pool can name
LinkedFiles == 1..2

LinkFragment == <<"#", "f">>
LinkTitle == <<" ", "\"", "T", "\"">>

\* a link construct: an image or not, what it names, and whether a fragment and
\* a title follow the target
LinkTargets ==
    {[kind |-> "file", k |-> k] : k \in LinkedFiles}
    \cup {[kind |-> "missing", k |-> 0], [kind |-> "url", k |-> 0],
          [kind |-> "fragment", k |-> 0], [kind |-> "mailto", k |-> 0],
          [kind |-> "own", k |-> 0], [kind |-> "other", k |-> 0],
          [kind |-> "bare", k |-> 0]}

\* a definition of another location, and one of a file of the subdirectory g
\* that has the name of file 1
OtherName == <<"o">>
OtherBasePath == <<"/", "o">>
OtherRelPath == <<"5">> \o MdExt
TwinRelPath == <<"g", "/", "1">> \o MdExt
ColonRelPath == <<"m", ":", "a">> \o MdExt

OtherDef ==
    [URI |-> ResourceURI(OtherName, OtherRelPath), Name |-> <<"n", "5">>,
     FilePath |-> Join(Join(OtherBasePath, ACDCResourcesDir), OtherRelPath),
     Keywords |-> <<"5">>, Source |-> OtherName]

TwinDef ==
    [URI |-> ResourceURI(SourceName, TwinRelPath), Name |-> <<"n", "1">>,
     FilePath |-> Join(Join(BasePath, ACDCResourcesDir), TwinRelPath),
     Keywords |-> <<"1">>, Source |-> SourceName]

\* a definition of a file of the top directory whose name holds a colon
ColonDef ==
    [URI |-> ResourceURI(SourceName, ColonRelPath), Name |-> <<"n", "6">>,
     FilePath |-> Join(Join(BasePath, ACDCResourcesDir), ColonRelPath),
     Keywords |-> <<"6">>, Source |-> SourceName]

ExtraDefs == <<OtherDef, TwinDef, ColonDef>>

TokenPool ==
    {[link |-> FALSE, bang |-> FALSE, target |-> [kind |-> "none", k |-> 0], decorated |-> FALSE]}
    \cup {[link |-> TRUE, bang |-> FALSE, target |-> t, decorated |-> d] :
            t \in LinkTargets, d \in {FALSE}}
    \cup {[link |-> TRUE, bang |-> FALSE, target |-> t, decorated |-> TRUE] :
            t \in {u \in LinkTargets : u.kind = "file" /\ u.k = 1}}
    \cup {[link |-> TRUE, bang |-> TRUE, target |-> [kind |-> "file", k |-> 1],
           decorated |-> FALSE]}

TokenBodies == SeqsUpTo(TokenPool, MaxLinks)

\* the path a document at place d writes to name file k: relative to its own
\* directory (the even files lie in the subdirectory g)
RelativeTarget(d, k) ==
    IF d % 2 = 0
    THEN IF k % 2 = 0 THEN <<Digit(k)>> \o MdExt
         ELSE DotDot \o Slash \o <<Digit(k)>> \o MdExt
    ELSE IF k % 2 = 0 THEN <<"g", "/", Digit(k)>> \o MdExt
         ELSE Dot \o Slash \o <<Digit(k)>> \o MdExt

TargetText(d, t) ==
    CASE t.kind = "file" -> RelativeTarget(d, t.k)
      [] t.kind = "missing" -> <<"9">> \o MdExt
      [] t.kind = "url" -> <<"h", "t", "t", "p", ":", "/", "/", "h">>
      [] t.kind = "fragment" -> <<"#", "s">>
      [] t.kind = "mailto" -> ColonRelPath
      [] t.kind = "own" -> ResourceURI(SourceName, RelPathOf(1))
      [] t.kind = "other" ->
            (IF d % 2 = 0 THEN DotDot \o Slash ELSE <<>>) \o DotDot \o Slash \o DotDot
                \o Slash \o OtherName \o Slash \o ACDCResourcesDir \o Slash \o OtherRelPath
      [] t.kind = "bare" -> <<"1">> \o MdExt

\* the construct as written, around the given target
LinkAround(tok, target) ==
    (IF tok.bang THEN <<"!">> ELSE <<>>) \o <<"[", "L", "]", "(">> \o target
        \o (IF tok.decorated THEN LinkFragment \o LinkTitle ELSE <<>>) \o <<")">>

TokenText(d, tok) ==
    IF ~tok.link THEN <<"t", " ">> ELSE LinkAround(tok, TargetText(d, tok.target))

\* a link that is no image and names the file of one of the n numbered
\* definitions or of one of the extra definitions
Resolvable(tok, n) ==
    /\ tok.link /\ ~tok.bang
    /\ \/ tok.target.kind = "file" /\ tok.target.k \in 1..n
       \/ tok.target.kind \in {"other", "bare"}

\* the URI of the definition a resolvable link of the document at place d names:
\* the bare name 1.md is file 1 next to a document of the top directory and
\* the file of the subdirectory next to a document of the subdirectory
NamedURI(d, tok) ==
    CASE tok.target.kind = "file" -> ResourceURI(SourceName, RelPathOf(tok.target.k))
      [] tok.target.kind = "other" -> OtherDef.URI
      [] tok.target.kind = "bare" ->
            IF d % 2 = 0 THEN TwinDef.URI ELSE ResourceURI(SourceName, RelPathOf(1))

\* the construct with its target replaced by the URI of the file it names
TokenResolved(d, tok, n) ==
    IF Resolvable(tok, n) THEN LinkAround(tok, NamedURI(d, tok)) ELSE TokenText(d, tok)

RECURSIVE BodyWritten(_, _)
BodyWritten(d, toks) ==
    IF toks = <<>> THEN <<>> ELSE TokenText(d, Head(toks)) \o BodyWritten(d, Tail(toks))

RECURSIVE BodyResolved(_, _, _)
BodyResolved(d, toks, n) ==
    IF toks = <<>> THEN <<>>
    ELSE TokenResolved(d, Head(toks), n) \o BodyResolved(d, Tail(toks), n)

\* the place of the document under test: the one whose body is not the stock body
UnderTest == {d \in 1..Len(definitions) :
                 /\ FilePathOf(d) \in DOMAIN files
                 /\ files[FilePathOf(d)] = Header \o BodyWritten(d, tokens)}

InitXref ==
    /\ \E n \in 1..MaxDefs, d \in 1..2, toks \in TokenBodies :
          /\ d <= n /\ toks # <<>>
          /\ ProviderBuilt([i \in 1..n |-> ResDef(i, i)] \o ExtraDefs, <<>>)
          /\ tokens = toks
          /\ files = [fp \in {FilePathOf(i) : i \in 1..n}
                                \cup {ExtraDefs[i].FilePath : i \in 1..Len(ExtraDefs)} |->
                        IF fp \in {ExtraDefs[i].FilePath : i \in 1..Len(ExtraDefs)}
                        THEN Header \o BodyOf(0)
                        ELSE LET i == CHOOSE k \in 1..n : FilePathOf(k) = fp IN
                             Header \o (IF i = d THEN BodyWritten(d, toks) ELSE BodyOf(i))]
    /\ hasTransformer \in BOOLEAN
    /\ lastCall = NoCall
    /\ opened = <<>>
    /\ StreamIdle
    /\ locations = <<>> /\ fsys = <<>>
    /\ resDiscovery = NoDiscovery /\ promptDiscovery = NoDiscovery
    /\ scheme = DefaultScheme
    /\ authSettings = NoAuth

NextXref == ReadResourceCall

SpecXref == InitXref /\ [][NextXref]_vars

\* how many numbered definitions the provider holds
NumberedDefs ==
    Cardinality({i \in 1..Len(definitions) : definitions[i].FilePath = FilePathOf(i)})

\* the documents under test that the last ReadResource read
XrefRead ==
    IF lastCall.op = "ReadResource" /\ lastCall.err = "nil"
    THEN {d \in UnderTest : definitions[d].URI = lastCall.uri}
    ELSE {}

----------------------------------------------------------------------------
(* Content discovery: the disk, the adapters, the registry and the walk.   *)

\* errors: the message, the content location it names and what it wraps
NoErr == [location |-> <<>>, msg |-> "nil", cause |-> "nil"]
AdapterErr(msg, cause) == [location |-> <<>>, msg |-> msg, cause |-> cause]
\* fmt.Errorf("content location %q: ...: %w", loc.Name, err)
LocationErr(name, msg, cause) == [location |-> name, msg |-> msg, cause |-> cause]

\* os.Stat(path) on the disk fs
Stat(fs, path) ==
    IF path \notin DOMAIN fs THEN [err |-> "not exist", IsDir |-> FALSE]
    ELSE IF fs[path].Stat # "ok" THEN [err |-> fs[path].Stat, IsDir |-> FALSE]
    ELSE [err |-> "nil", IsDir |-> fs[path].IsDir]

ACDCAdapterName == "acdc-mcp"
LegacyAdapterName == "legacy"
LegacyResourcesDir == <<"m", "c", "p", "-">> \o ACDCResourcesDir
LegacyPromptsDir == <<"m", "c", "p", "-">> \o ACDCPromptsDir

ACDCAdapter ==
    [Name |-> ACDCAdapterName, ResourcesDir |-> ACDCResourcesDir,
     PromptsDir |-> ACDCPromptsDir]
LegacyAdapter ==
    [Name |-> LegacyAdapterName, ResourcesDir |-> LegacyResourcesDir,
     PromptsDir |-> LegacyPromptsDir]

\* CanHandle(basePath): the resources directory of the layout is a directory
CanHandle(fs, adapter, basePath) ==
    LET info == Stat(fs, Join(basePath, adapter.ResourcesDir)) IN
    info.err = "nil" /\ info.IsDir

\* the registry: the adapters in the order of their registration
NewRegistry == <<>>
Register(registry, adapter) == Append(registry, adapter)

\* Get(typeName): the adapter registered under the name
RegistryGet(registry, typeName) ==
    LET hits == {i \in 1..Len(registry) : registry[i].Name = typeName} IN
    IF hits = {} THEN [ok |-> FALSE, adapter |-> ACDCAdapter]
    ELSE [ok |-> TRUE, adapter |-> registry[CHOOSE i \in hits : \A j \in hits : i <= j]]

\* AutoDetect(basePath): the first registered adapter whose CanHandle is true;
\* consulted lists the adapters whose CanHandle was called
AutoDetect(registry, fs, basePath) ==
    Bind({i \in 1..Len(registry) : CanHandle(fs, registry[i], basePath)},
         LAMBDA hits :
            IF hits = {}
            THEN [err |-> "no adapter recognizes this layout", adapter |-> ACDCAdapter,
                  consulted |-> [i \in 1..Len(registry) |-> registry[i].Name]]
            ELSE LET first == CHOOSE i \in hits : \A j \in hits : i <= j IN
                 [err |-> "nil", adapter |-> registry[first],
                  consulted |-> [i \in 1..first |-> registry[i].Name]])

\* the registry with the legacy adapter registered first
createAdapterRegistryLegacyFirst ==
    Register(Register(NewRegistry, LegacyAdapter), ACDCAdapter)

createAdapterRegistry ==
    Register(Register(NewRegistry, ACDCAdapter), LegacyAdapter)

\* cp.LoadMarkdownWithFrontmatter(path): the metadata and the content of the
\* file, or an error when the file cannot be read or its header does not parse
LoadMarkdownWithFrontmatter(fs, path) ==
    IF ~fs[path].Readable THEN [err |-> "read error"]
    ELSE IF ~fs[path].Data.ParseOk THEN [err |-> "parse error"]
    ELSE [err |-> "nil", Metadata |-> fs[path].Data.Metadata,
          Content |-> fs[path].Data.Content]

\* md.Metadata[key].(string): the empty string when the key is missing
MetaString(metadata, key) ==
    IF key \in DOMAIN metadata THEN metadata[key] ELSE <<>>

NoDefs == [defs |-> <<>>, err |-> NoErr]


\* the strings of md.Metadata["keywords"]
MetaKeywords(metadata) ==
    IF "keywords" \in DOMAIN metadata THEN metadata["keywords"] ELSE <<>>

\* the walk function that reports a file without name or description as an
\* error of the walk
ResourceWalkFnStrict(fs, location, resourcePath, path, walkErr) ==
    IF walkErr # NoErr THEN [defs |-> <<>>, err |-> walkErr]
    ELSE IF fs[path].IsDir THEN NoDefs
    ELSE IF Ext(path) # MdExt THEN NoDefs
    ELSE LET md == LoadMarkdownWithFrontmatter(fs, path) IN
         IF md.err # "nil" THEN NoDefs
         ELSE LET name == MetaString(md.Metadata, "name")
                  description == MetaString(md.Metadata, "description")
              IN  IF name = <<>> \/ description = <<>>
                  THEN [defs |-> <<>>, err |-> AdapterErr("missing metadata", "nil")]
                  ELSE [defs |-> <<[URI |-> ResourceURI(location.Name, Rel(resourcePath, path)),
                                    Name |-> name,
                                    Description |-> description,
                                    FilePath |-> path,
                                    Keywords |-> MetaKeywords(md.Metadata),
                                    Source |-> location.Name]>>,
                        err |-> NoErr]

\* the function DiscoverResources hands to WalkDir, called on path with the
\* error of the walk: the definitions it appends and the error it returns
ResourceWalkFn(fs, location, resourcePath, path, walkErr) ==
    IF walkErr # NoErr THEN [defs |-> <<>>, err |-> walkErr]
    ELSE IF fs[path].IsDir THEN NoDefs
    ELSE IF Ext(path) # MdExt THEN NoDefs
    ELSE LET md == LoadMarkdownWithFrontmatter(fs, path) IN
         IF md.err # "nil" THEN NoDefs
         ELSE LET name == MetaString(md.Metadata, "name")
                  description == MetaString(md.Metadata, "description")
              IN  IF name = <<>> \/ description = <<>> THEN NoDefs
                  ELSE [defs |-> <<[URI |-> ResourceURI(location.Name, Rel(resourcePath, path)),
                                    Name |-> name,
                                    Description |-> description,
                                    FilePath |-> path,
                                    Keywords |-> MetaKeywords(md.Metadata),
                                    Source |-> location.Name]>>,
                        err |-> NoErr]

\* a value of the header: a boolean or a string
BoolValue(b) == [bool |-> b]
StringValue(str) == [str |-> str]

\* amap["required"].(bool): the value and whether it is a boolean
AssertBool(amap, key) ==
    IF key \in DOMAIN amap /\ "bool" \in DOMAIN amap[key]
    THEN [ok |-> TRUE, val |-> amap[key].bool]
    ELSE [ok |-> FALSE, val |-> FALSE]

\* the extraction that takes an argument without a boolean required as optional
RECURSIVE ExtractArgumentsOptional(_)
ExtractArgumentsOptional(args) ==
    IF args = <<>> THEN <<>>
    ELSE LET amap == Head(args)
             argName == IF "name" \in DOMAIN amap THEN amap["name"] ELSE ""
             argReq == AssertBool(amap, "required").val
         IN  (IF argName # "" THEN <<[Name |-> argName, Required |-> argReq]>> ELSE <<>>)
                 \o ExtractArgumentsOptional(Tail(args))

\* the arguments of md.Metadata["arguments"]: an item without a name is
\* dropped, an item without a boolean required is required
RECURSIVE ExtractArguments(_)
ExtractArguments(args) ==
    IF args = <<>> THEN <<>>
    ELSE LET amap == Head(args)
             argName == IF "name" \in DOMAIN amap THEN amap["name"] ELSE ""
             argReq == IF AssertBool(amap, "required").ok
                       THEN AssertBool(amap, "required").val ELSE TRUE
         IN  (IF argName # "" THEN <<[Name |-> argName, Required |-> argReq]>> ELSE <<>>)
                 \o ExtractArguments(Tail(args))

\* the function DiscoverPrompts hands to WalkDir
PromptWalkFn(fs, location, path, walkErr) ==
    IF walkErr # NoErr THEN NoDefs
    ELSE IF fs[path].IsDir THEN NoDefs
    ELSE IF Ext(path) # MdExt THEN NoDefs
    ELSE LET md == LoadMarkdownWithFrontmatter(fs, path) IN
         IF md.err # "nil" THEN NoDefs
         ELSE LET baseName == MetaString(md.Metadata, "name")
                  description == MetaString(md.Metadata, "description")
                  arguments == IF "arguments" \in DOMAIN md.Metadata
                               THEN ExtractArguments(md.Metadata["arguments"])
                               ELSE <<>>
              IN  IF baseName = <<>> \/ description = <<>> THEN NoDefs
                  ELSE IF ~md.Content.TemplateOk THEN NoDefs
                  ELSE [defs |-> <<[Name |-> location.Name \o <<":">> \o baseName,
                                    Description |-> description,
                                    Arguments |-> arguments,
                                    FilePath |-> path,
                                    Template |-> md.Content.Tokens,
                                    Source |-> location.Name]>>,
                        err |-> NoErr]

WalkFn(what, fs, location, root, path, walkErr) ==
    IF what = "resources" THEN ResourceWalkFn(fs, location, root, path, walkErr)
    ELSE PromptWalkFn(fs, location, path, walkErr)

ReadDirErr == AdapterErr("open directory", "permission denied")

\* filepath.WalkDir below path: fn on the entry; for a directory, fn again
\* when it cannot be listed, then its entries in lexical order; the first
\* error fn returns ends the walk
RECURSIVE walkDir(_, _, _, _, _)
RECURSIVE walkEntries(_, _, _, _, _, _, _)
walkDir(what, fs, location, root, path) ==
    Bind(WalkFn(what, fs, location, root, path, NoErr),
         LAMBDA first :
            IF first.err # NoErr \/ ~fs[path].IsDir THEN first
            ELSE Bind(IF fs[path].Readable THEN NoDefs
                      ELSE WalkFn(what, fs, location, root, path, ReadDirErr),
                      LAMBDA second :
                         IF second.err # NoErr THEN second
                         ELSE walkEntries(what, fs, location, root, path,
                                          IF fs[path].Readable THEN fs[path].Names
                                          ELSE <<>>, <<>>)))

walkEntries(what, fs, location, root, dir, names, defs) ==
    IF names = <<>> THEN [defs |-> defs, err |-> NoErr]
    ELSE Bind(walkDir(what, fs, location, root, Join(dir, Head(names))),
              LAMBDA r :
                 IF r.err # NoErr THEN [defs |-> defs \o r.defs, err |-> r.err]
                 ELSE walkEntries(what, fs, location, root, dir, Tail(names),
                                  defs \o r.defs))

\* the adapter's DiscoverResources that lets a missing resources directory
\* pass as an empty result
DiscoverResourcesLenient(fs, adapter, location) ==
    LET resourcePath == Join(location.BasePath, adapter.ResourcesDir)
        info == Stat(fs, resourcePath)
    IN  IF info.err # "nil" \/ ~info.IsDir
        THEN [defs |-> <<>>, err |-> NoErr, walked |-> <<>>]
        ELSE Bind(walkDir("resources", fs, location, resourcePath, resourcePath),
                  LAMBDA w :
                     IF w.err # NoErr
                     THEN [defs |-> <<>>, err |-> w.err, walked |-> resourcePath]
                     ELSE [defs |-> w.defs, err |-> NoErr, walked |-> resourcePath])

\* adapter.DiscoverResources(location, cp): the definitions, the error and the
\* directory that was walked
DiscoverResources(fs, adapter, location) ==
    LET resourcePath == Join(location.BasePath, adapter.ResourcesDir)
        info == Stat(fs, resourcePath)
    IN  IF info.err # "nil"
        THEN [defs |-> <<>>, err |-> AdapterErr("resources directory not found", info.err),
              walked |-> <<>>]
        ELSE IF ~info.IsDir
        THEN [defs |-> <<>>, err |-> AdapterErr("resources path is not a directory", "nil"),
              walked |-> <<>>]
        ELSE Bind(walkDir("resources", fs, location, resourcePath, resourcePath),
                  LAMBDA w :
                     IF w.err # NoErr
                     THEN [defs |-> <<>>, err |-> w.err, walked |-> resourcePath]
                     ELSE [defs |-> w.defs, err |-> NoErr, walked |-> resourcePath])

\* the adapter's DiscoverPrompts that reports a missing prompts directory
DiscoverPromptsStrict(fs, adapter, location) ==
    LET promptPath == Join(location.BasePath, adapter.PromptsDir)
        info == Stat(fs, promptPath)
    IN  IF info.err # "nil"
        THEN [defs |-> <<>>,
              err |-> AdapterErr("error checking prompts directory", info.err),
              walked |-> <<>>]
        ELSE IF ~info.IsDir THEN [defs |-> <<>>, err |-> NoErr, walked |-> <<>>]
        ELSE Bind(walkDir("prompts", fs, location, promptPath, promptPath),
                  LAMBDA w : [defs |-> w.defs, err |-> w.err, walked |-> promptPath])

\* adapter.DiscoverPrompts(location, cp)
DiscoverPrompts(fs, adapter, location) ==
    LET promptPath == Join(location.BasePath, adapter.PromptsDir)
        info == Stat(fs, promptPath)
    IN  IF info.err # "nil"
        THEN IF info.err = "not exist"
             THEN [defs |-> <<>>, err |-> NoErr, walked |-> <<>>]
             ELSE [defs |-> <<>>,
                   err |-> AdapterErr("error checking prompts directory", info.err),
                   walked |-> <<>>]
        ELSE IF ~info.IsDir THEN [defs |-> <<>>, err |-> NoErr, walked |-> <<>>]
        ELSE Bind(walkDir("prompts", fs, location, promptPath, promptPath),
                  LAMBDA w : [defs |-> w.defs, err |-> w.err, walked |-> promptPath])


\* the content provider: the base path of every configured location
NewContentProvider(locs) ==
    [name \in {locs[i].Name : i \in 1..Len(locs)} |->
        locs[CHOOSE i \in 1..Len(locs) : locs[i].Name = name].Path]

GetBasePath(cp, name) ==
    IF name \in DOMAIN cp THEN [ok |-> TRUE, path |-> cp[name]]
    ELSE [ok |-> FALSE, path |-> <<>>]

\* the resolution that auto-detects first and turns to the declared type only
\* when no adapter recognises the layout
ResolveAdapterAutoFirst(fs, registry, loc, basePath) ==
    LET got == RegistryGet(registry, loc.Type) IN
    Bind(AutoDetect(registry, fs, basePath),
         LAMBDA a :
            IF a.err = "nil"
            THEN [err |-> NoErr, adapter |-> a.adapter, consulted |-> a.consulted]
            ELSE IF loc.Type # "" /\ got.ok
            THEN [err |-> NoErr, adapter |-> got.adapter, consulted |-> a.consulted]
            ELSE [err |-> LocationErr(loc.Name, a.err, "nil"), adapter |-> a.adapter,
                  consulted |-> a.consulted])

\* the adapter of a location: the one registered under the declared type, or
\* the auto-detected one when no type is declared
ResolveAdapter(fs, registry, loc, basePath) ==
    IF loc.Type # ""
    THEN LET got == RegistryGet(registry, loc.Type) IN
         IF ~got.ok
         THEN [err |-> LocationErr(loc.Name, "unknown adapter type", loc.Type),
               adapter |-> got.adapter, consulted |-> <<>>]
         ELSE [err |-> NoErr, adapter |-> got.adapter, consulted |-> <<>>]
    ELSE Bind(AutoDetect(registry, fs, basePath),
              LAMBDA a :
                 IF a.err # "nil"
                 THEN [err |-> LocationErr(loc.Name, a.err, "nil"),
                       adapter |-> a.adapter, consulted |-> a.consulted]
                 ELSE [err |-> NoErr, adapter |-> a.adapter,
                       consulted |-> a.consulted])

\* what a call of discovery leaves: the definitions, the error, and for every
\* location visited the adapter used, the adapters consulted and the directory
\* walked
Visit(loc, adapterName, consulted, walked) ==
    [location |-> loc.Name, adapter |-> adapterName, consulted |-> consulted,
     walked |-> walked]

Failed(err, trace) == [called |-> TRUE, defs |-> <<>>, err |-> err, trace |-> trace]

\* the loop over the locations, from place i on
RECURSIVE DiscoverFrom(_, _, _, _, _, _, _, _)
DiscoverFrom(what, locs, cp, registry, fs, i, allDefinitions, trace) ==
    IF i > Len(locs)
    THEN [called |-> TRUE, defs |-> allDefinitions, err |-> NoErr, trace |-> trace]
    ELSE LET loc == locs[i]
             base == GetBasePath(cp, loc.Name)
         IN
         IF ~base.ok
         THEN Failed(LocationErr(loc.Name, "base path not found", "nil"),
                     Append(trace, Visit(loc, "", <<>>, <<>>)))
         ELSE Bind(ResolveAdapter(fs, registry, loc, base.path),
                   LAMBDA r :
              IF r.err # NoErr
              THEN Failed(r.err, Append(trace, Visit(loc, "", r.consulted, <<>>)))
              ELSE LET adapterLoc == [Name |-> loc.Name, BasePath |-> base.path,
                                      AdapterType |-> loc.Type]
                   IN
                   Bind(IF what = "resources"
                        THEN DiscoverResources(fs, r.adapter, adapterLoc)
                        ELSE DiscoverPrompts(fs, r.adapter, adapterLoc),
                        LAMBDA d :
                   LET seen == Append(trace, Visit(loc, r.adapter.Name,
                                                   r.consulted, d.walked))
                   IN  IF d.err # NoErr
                       THEN Failed(LocationErr(loc.Name,
                                       IF what = "resources"
                                       THEN "failed to discover resources"
                                       ELSE "failed to discover prompts",
                                       d.err.msg), seen)
                       ELSE DiscoverFrom(what, locs, cp, registry, fs, i + 1,
                                         allDefinitions \o d.defs, seen)))

DiscoverResourcesWithAdapters(locs, cp, registry, fs) ==
    DiscoverFrom("resources", locs, cp, registry, fs, 1, <<>>, <<>>)

DiscoverPromptsWithAdapters(locs, cp, registry, fs) ==
    DiscoverFrom("prompts", locs, cp, registry, fs, 1, <<>>, <<>>)


----------------------------------------------------------------------------
(* The discovery specification: the configured locations, the disk under   *)
(* their base paths, and the two discovery calls of the startup.           *)

MaxLocations == 2
MaxFiles == 2

LocationName(i) == <<CHOOSE c \in {"a", "b", "c", "d"} :
                        c = <<"a", "b", "c", "d">>[i]>>
LocationPath(i) == Slash \o <<"v">> \o Slash \o LocationName(i)

\* the adapter types a location can declare: none, the two registered, another
TypePool == {"", ACDCAdapterName, LegacyAdapterName, "other"}

\* what a file of the disk can be: valid, with a header that does not parse,
\* without a name, with an empty description, with a body that is no template,
\* or not Markdown
FileKinds == {"ok", "parse", "noname", "emptydesc", "badtmpl", "notmd"}

\* two more kinds, each in trees of its own: "unreadable", a valid file that
\* cannot be read, and "twin", a valid file that carries the file name and the
\* name of file 1

FullMetadata(k) ==
    [name |-> <<"n", Digit(k)>>, description |-> <<"d">>,
     keywords |-> << <<"k">> >>,
     arguments |-> <<[name |-> "x", required |-> BoolValue(FALSE)],
                     IF k % 2 = 1 THEN [name |-> "y"]
                     ELSE [name |-> "y", required |-> StringValue("false")],
                     [name |-> ""]>>]

MetadataOf(kind, k) ==
    CASE kind = "twin" -> FullMetadata(1)
      [] kind = "noname" ->
            [key \in DOMAIN FullMetadata(k) \ {"name"} |-> FullMetadata(k)[key]]
      [] kind = "emptydesc" -> [FullMetadata(k) EXCEPT !["description"] = <<>>]
      [] OTHER -> FullMetadata(k)

DataOf(kind, k) ==
    [ParseOk |-> kind # "parse",
     Metadata |-> MetadataOf(kind, k),
     Content |-> [TemplateOk |-> kind # "badtmpl", Tokens |-> <<TextTok(<<"h">>)>>]]

DirNode(names, readable) ==
    [Stat |-> "ok", IsDir |-> TRUE, Readable |-> readable, Names |-> names,
     Data |-> DataOf("parse", 1)]
FileNode(kind, k) ==
    [Stat |-> "ok", IsDir |-> FALSE, Readable |-> kind # "unreadable", Names |-> <<>>,
     Data |-> DataOf(kind, k)]
DeniedNode ==
    [Stat |-> "permission denied", IsDir |-> FALSE, Readable |-> FALSE, Names |-> <<>>,
     Data |-> DataOf("parse", 1)]

FileName(kind, k) ==
    <<Digit(IF kind = "twin" THEN 1 ELSE k)>>
        \o (IF kind = "notmd" THEN <<".", "t", "x", "t">> ELSE MdExt)

SubDirName == <<"g">>

\* the path of file k below the directory top: the even files lie in g
TreePath(top, kind, k) ==
    IF k % 2 = 0 THEN top \o Slash \o SubDirName \o Slash \o FileName(kind, k)
    ELSE top \o Slash \o FileName(kind, k)

\* the names of the files of one parity, in lexical order
NamesOf(kinds, parity) ==
    LET places == SelectSeq([i \in 1..Len(kinds) |-> i], LAMBDA i : i % 2 = parity) IN
    [j \in 1..Len(places) |-> FileName(kinds[places[j]], places[j])]

\* the tree of the files of the given kinds below the directory top
TreeAt(top, kinds, subReadable) ==
    LET hasSub == Len(kinds) >= 2
        dirs == IF hasSub THEN {top, top \o Slash \o SubDirName} ELSE {top}
        paths == {TreePath(top, kinds[k], k) : k \in 1..Len(kinds)}
    IN  [p \in dirs \cup paths |->
            IF p = top
            THEN DirNode(NamesOf(kinds, 1) \o (IF hasSub THEN <<SubDirName>> ELSE <<>>), TRUE)
            ELSE IF p \in dirs THEN DirNode(NamesOf(kinds, 0), subReadable)
            ELSE LET k == CHOOSE j \in 1..Len(kinds) : TreePath(top, kinds[j], j) = p IN
                 FileNode(kinds[k], k)]

\* what lies at the path top: nothing, a file, a path that cannot be examined,
\* or a directory with the tree
TopKinds == {"absent", "file", "denied", "dir"}

TopAt(top, topKind, kinds, subReadable) ==
    CASE topKind = "absent" -> <<>>
      [] topKind = "file" -> (top :> FileNode("ok", 1))
      [] topKind = "denied" -> (top :> DeniedNode)
      [] topKind = "dir" -> TreeAt(top, kinds, subReadable)

\* the disk below the base path of location i
LocationFs(i, c, kinds, subReadable) ==
    TopAt(Join(LocationPath(i), ACDCResourcesDir), c.res, kinds, subReadable)
    @@ TopAt(Join(LocationPath(i), LegacyResourcesDir), c.mcpres, kinds, subReadable)
    @@ TopAt(Join(LocationPath(i), ACDCPromptsDir), c.prompts, kinds, subReadable)
    @@ TopAt(Join(LocationPath(i), LegacyPromptsDir), c.mcpprompts, kinds, subReadable)

RECURSIVE FsOf(_, _, _, _)
FsOf(configs, i, kinds, subReadable) ==
    IF i > Len(configs) THEN <<>>
    ELSE LocationFs(i, configs[i], kinds, subReadable)
         @@ FsOf(configs, i + 1, kinds, subReadable)

\* the locations whose adapter resolution is at stake: any declared type, the
\* native resources directory absent, a file or a directory, the legacy one
\* absent or a directory; both prompts directories hold the tree
ResolveConfigs ==
    {[Type |-> t, res |-> r, mcpres |-> m, prompts |-> "dir", mcpprompts |-> "dir"] :
        t \in TypePool, r \in {"absent", "file", "dir"}, m \in {"absent", "dir"}}

\* a location of one of the two layouts, auto-detected, with its prompts
\* directory in the given condition
WalkConfig(legacy, pk) ==
    IF legacy
    THEN [Type |-> "", res |-> "absent", mcpres |-> "dir", prompts |-> "absent",
          mcpprompts |-> pk]
    ELSE [Type |-> "", res |-> "dir", mcpres |-> "absent", prompts |-> pk,
          mcpprompts |-> "absent"]

\* the locations whose walk is at stake: each of either layout, and at most one
\* of them with a prompts directory that is not a directory
WalkConfigLists ==
    UNION {{[i \in 1..n |-> WalkConfig(legacy[i], IF i = odd THEN pk ELSE "dir")] :
                legacy \in [1..n -> BOOLEAN], odd \in 1..n, pk \in TopKinds}
            : n \in 1..MaxLocations}

\* the names of n locations: one letter each
PlainNames(n) == [i \in 1..n |-> LocationName(i)]

ResolveWorlds ==
    {[configs |-> cs, kinds |-> <<"ok">>, subReadable |-> TRUE, scheme |-> DefaultScheme,
      names |-> PlainNames(Len(cs))] :
        cs \in UNION {[1..n -> ResolveConfigs] : n \in 1..MaxLocations}}

\* the identifier schemes a configuration can name
SchemePool == {DefaultScheme, <<"m", "y", "c", "o">>}

\* the names of n locations of which the second is the name of the first
\* followed by a separator and the name of the subdirectory of the trees
NestedNames(n) ==
    [i \in 1..n |-> IF i = 2 THEN LocationName(1) \o Slash \o SubDirName
                    ELSE LocationName(i)]

\* valid files only
AllOk(n) == [k \in 1..n |-> "ok"]

\* valid files of which the second, in the subdirectory, is the twin of the
\* first
WithTwin(n) == [k \in 1..n |-> IF k = 2 THEN "twin" ELSE "ok"]

\* the trees of the walk: files of any kinds below readable directories,
\* valid files with a subdirectory that cannot be listed, valid files after a
\* first file that cannot be read, valid files under another scheme, and valid
\* files of which two carry one name, under locations whose names may contain
\* a separator
WalkWorlds ==
    {[configs |-> cs, kinds |-> ks, subReadable |-> TRUE, scheme |-> DefaultScheme,
      names |-> PlainNames(Len(cs))] :
        cs \in WalkConfigLists, ks \in SeqsUpTo(FileKinds, MaxFiles)}
    \cup {[configs |-> cs, kinds |-> AllOk(n), subReadable |-> FALSE,
           scheme |-> DefaultScheme, names |-> PlainNames(Len(cs))] :
            cs \in WalkConfigLists, n \in 2..MaxFiles}
    \cup {[configs |-> cs,
           kinds |-> [k \in 1..n |-> IF k = 1 THEN "unreadable" ELSE "ok"],
           subReadable |-> TRUE, scheme |-> DefaultScheme,
           names |-> PlainNames(Len(cs))] :
            cs \in WalkConfigLists, n \in 1..MaxFiles}
    \cup {[configs |-> cs, kinds |-> AllOk(n), subReadable |-> TRUE,
           scheme |-> sch, names |-> PlainNames(Len(cs))] :
            cs \in WalkConfigLists, n \in 1..MaxFiles,
            sch \in SchemePool \ {DefaultScheme}}
    \cup {[configs |-> cs, kinds |-> WithTwin(n), subReadable |-> TRUE,
           scheme |-> DefaultScheme, names |-> nm[Len(cs)]] :
            cs \in WalkConfigLists, n \in 2..MaxFiles,
            nm \in {[m \in 1..MaxLocations |-> PlainNames(m)],
                    [m \in 1..MaxLocations |-> NestedNames(m)]}}

\* the configuration and the disk of the world w, before any discovery
InitWorld(w) ==
    /\ locations = [i \in 1..Len(w.configs) |->
                      [Name |-> w.names[i], Type |-> w.configs[i].Type,
                       Path |-> LocationPath(i)]]
    /\ fsys = FsOf(w.configs, 1, w.kinds, w.subReadable)
    /\ scheme = w.scheme
    /\ authSettings = NoAuth
    /\ resDiscovery = NoDiscovery /\ promptDiscovery = NoDiscovery
    /\ tokens = <<>>
    /\ ProviderBuilt(<<>>, <<>>)
    /\ files = <<>>
    /\ hasTransformer = FALSE
    /\ lastCall = NoCall
    /\ opened = <<>>
    /\ StreamIdle

InitResolve == \E w \in ResolveWorlds : InitWorld(w)

InitWalk == \E w \in WalkWorlds : InitWorld(w)

DiscoverResourcesCall ==
    /\ resDiscovery' = DiscoverResourcesWithAdapters(
                           locations, NewContentProvider(locations),
                           createAdapterRegistry, fsys)
    /\ UNCHANGED <<tokens, locations, fsys, promptDiscovery, scheme, authSettings>>
    /\ UNCHANGED <<provVars, callVars, streamVars>>

DiscoverPromptsCall ==
    /\ promptDiscovery' = DiscoverPromptsWithAdapters(
                              locations, NewContentProvider(locations),
                              createAdapterRegistry, fsys)
    /\ UNCHANGED <<tokens, locations, fsys, resDiscovery, scheme, authSettings>>
    /\ UNCHANGED <<provVars, callVars, streamVars>>

NextDiscover == DiscoverResourcesCall \/ DiscoverPromptsCall

SpecResolve == InitResolve /\ [][NextDiscover]_vars

SpecWalk == InitWalk /\ [][NextDiscover]_vars


----------------------------------------------------------------------------
(* What the disk and the configuration say, read without the discovery     *)
(* code.                                                                   *)

IsDirOnDisk(path) ==
    path \in DOMAIN fsys /\ fsys[path].Stat = "ok" /\ fsys[path].IsDir

\* the directory of the given name below the base path of location i
TopOf(i, dirName) == locations[i].Path \o Slash \o dirName

RegisteredAdapters == {ACDCAdapter, LegacyAdapter}
AdapterNamed(name) == CHOOSE a \in RegisteredAdapters : a.Name = name

\* the definitions of a discovery that carry the source name
DefsOf(d, name) == SelectSeq(d.defs, LAMBDA x : x.Source = name)

Below(dir) == {q \in DOMAIN fsys : HasPrefix(q, dir \o Slash)}

\* the two discoveries with the directory each adapter reads for them
Ran == {[d |-> resDiscovery, what |-> "resources"],
        [d |-> promptDiscovery, what |-> "prompts"]}

DirFor(adapter, what) ==
    IF what = "resources" THEN adapter.ResourcesDir ELSE adapter.PromptsDir

\* the places of the registry whose adapter can handle location i
CanHandlePlaces(i) ==
    {k \in 1..Len(createAdapterRegistry) :
        CanHandle(fsys, createAdapterRegistry[k], locations[i].Path)}

FirstPlace(S) == CHOOSE k \in S : \A j \in S : k <= j

\* C6: for every location visited, a declared adapter type that is registered
\* is the adapter used, in resource and in prompt discovery, whatever the
\* adapters' CanHandle say, and no CanHandle is called; with no declared type
\* the adapter used is the first of the registry whose CanHandle is true. The
\* adapter used is the one whose directory is walked and whose files the
\* definitions of the location come from.
C6_ExplicitTypeWins ==
    \A r \in Ran : r.d.called =>
        \A i \in 1..Len(r.d.trace) :
            LET loc == locations[i]
                v == r.d.trace[i]
                used == AdapterNamed(v.adapter)
                dir == TopOf(i, DirFor(used, r.what))
            IN  /\ v.location = loc.Name
                /\ (loc.Type # "" /\ \E a \in RegisteredAdapters : a.Name = loc.Type)
                       => v.adapter = loc.Type /\ v.consulted = <<>>
                /\ (loc.Type = "" /\ CanHandlePlaces(i) # {})
                       => /\ v.adapter = createAdapterRegistry[FirstPlace(CanHandlePlaces(i))].Name
                          /\ v.consulted = [k \in 1..FirstPlace(CanHandlePlaces(i)) |->
                                               createAdapterRegistry[k].Name]
                /\ v.adapter # ""
                       => /\ v.walked \in {<<>>, dir}
                          /\ \A k \in 1..Len(DefsOf(r.d, loc.Name)) :
                                HasPrefix(DefsOf(r.d, loc.Name)[k].FilePath, dir \o Slash)

\* a location that declares the legacy type while only its native resources
\* directory is a directory: prompts were discovered from mcp-prompts
C6_Witness ==
    /\ promptDiscovery.called /\ promptDiscovery.err = NoErr
    /\ \E i \in 1..Len(locations) :
          /\ locations[i].Type = LegacyAdapterName
          /\ IsDirOnDisk(TopOf(i, ACDCResourcesDir))
          /\ ~IsDirOnDisk(TopOf(i, LegacyResourcesDir))
          /\ DefsOf(promptDiscovery, locations[i].Name) # <<>>
          /\ promptDiscovery.trace[i].walked = TopOf(i, LegacyPromptsDir)

\* the locations with no declared type that hold both resources directories
BothLayouts ==
    {i \in 1..Len(locations) :
        /\ locations[i].Type = ""
        /\ IsDirOnDisk(TopOf(i, ACDCResourcesDir))
        /\ IsDirOnDisk(TopOf(i, LegacyResourcesDir))}

\* C7: a location with no declared type that holds both a resources and an
\* mcp-resources directory is discovered by the native adapter: its resources
\* come from resources/, the valid file there among them, none from
\* mcp-resources/.
C7_NativeBeforeLegacy ==
    resDiscovery.called =>
        \A i \in BothLayouts : i <= Len(resDiscovery.trace) =>
            LET mine == DefsOf(resDiscovery, locations[i].Name) IN
            /\ resDiscovery.trace[i].adapter = ACDCAdapterName
            /\ resDiscovery.trace[i].walked = TopOf(i, ACDCResourcesDir)
            /\ \A k \in 1..Len(mine) :
                  /\ HasPrefix(mine[k].FilePath, TopOf(i, ACDCResourcesDir) \o Slash)
                  /\ ~HasPrefix(mine[k].FilePath, TopOf(i, LegacyResourcesDir) \o Slash)
            /\ resDiscovery.err = NoErr =>
                  \E k \in 1..Len(mine) :
                      mine[k].FilePath = TreePath(TopOf(i, ACDCResourcesDir), "ok", 1)

C7_Witness ==
    /\ resDiscovery.called /\ resDiscovery.err = NoErr
    /\ \E i \in BothLayouts : DefsOf(resDiscovery, locations[i].Name) # <<>>


\* the fatal conditions of a location: a declared type that is not registered,
\* no declared type and no layout recognised, and (for resources) the resources
\* directory of the declared adapter absent or not a directory
UnknownType(i) ==
    locations[i].Type # "" /\ \A a \in RegisteredAdapters : a.Name # locations[i].Type

NoLayout(i) ==
    /\ locations[i].Type = ""
    /\ \A a \in RegisteredAdapters : ~IsDirOnDisk(TopOf(i, a.ResourcesDir))

NoResourcesDir(i) ==
    \E a \in RegisteredAdapters :
        a.Name = locations[i].Type /\ ~IsDirOnDisk(TopOf(i, a.ResourcesDir))

FatalAt(what, i) ==
    UnknownType(i) \/ NoLayout(i) \/ (what = "resources" /\ NoResourcesDir(i))

FatalPlaces(what) == {i \in 1..Len(locations) : FatalAt(what, i)}

\* C8: when some location has a fatal condition, discovery returns an error
\* that names the first such location and no definition at all, and visits no
\* location after it.
C8_FatalNamesLocation ==
    \A r \in Ran : (r.d.called /\ FatalPlaces(r.what) # {}) =>
        LET f == FirstPlace(FatalPlaces(r.what)) IN
        /\ r.d.err # NoErr
        /\ r.d.err.location = locations[f].Name
        /\ r.d.defs = <<>>
        /\ Len(r.d.trace) = f
        /\ r.d.trace[f].walked = <<>>

\* the first location holds a valid resource, the second declares an adapter
\* whose resources directory is missing: the resources of the first are gone
C8_Witness ==
    /\ resDiscovery.called
    /\ Len(locations) = 2
    /\ ~FatalAt("resources", 1) /\ NoResourcesDir(2)
    /\ resDiscovery.trace[1].walked # <<>>
    /\ resDiscovery.defs = <<>>
    /\ resDiscovery.err.location = locations[2].Name

\* the visited locations whose adapter finds no prompts directory on the disk
NoPromptsDir ==
    {i \in 1..Len(promptDiscovery.trace) :
        /\ promptDiscovery.trace[i].adapter # ""
        /\ TopOf(i, AdapterNamed(promptDiscovery.trace[i].adapter).PromptsDir)
               \notin DOMAIN fsys}

\* C9: a location whose prompts directory does not exist contributes no prompt
\* and no error, under either adapter, and the location after it is visited.
C9_MissingPromptsDirIsEmpty ==
    promptDiscovery.called =>
        \A i \in NoPromptsDir :
            /\ DefsOf(promptDiscovery, locations[i].Name) = <<>>
            /\ promptDiscovery.err.location # locations[i].Name
            /\ promptDiscovery.trace[i].walked = <<>>
            /\ i < Len(locations) => Len(promptDiscovery.trace) > i

\* the first location has no prompts directory and the prompts of the second
\* were discovered
C9_Witness ==
    /\ promptDiscovery.called /\ promptDiscovery.err = NoErr
    /\ 1 \in NoPromptsDir
    /\ Len(locations) = 2
    /\ DefsOf(promptDiscovery, locations[2].Name) # <<>>

\* every directory at or below dir can be listed
AllListable(dir) ==
    \A q \in {dir} \cup Below(dir) : fsys[q].IsDir => fsys[q].Readable

IsMarkdown(path) == HasSuffix(path, MdExt)

HasText(metadata, key) == key \in DOMAIN metadata /\ metadata[key] # <<>>

\* the per-file failures: a header that does not parse, name or description
\* missing or empty, and for a prompt a body that is no template
FileFails(what, path) ==
    LET data == fsys[path].Data IN
    \/ ~data.ParseOk
    \/ ~HasText(data.Metadata, "name")
    \/ ~HasText(data.Metadata, "description")
    \/ (what = "prompts" /\ ~data.Content.TemplateOk)

MarkdownFiles(dir) ==
    {q \in Below(dir) : ~fsys[q].IsDir /\ fsys[q].Readable /\ IsMarkdown(q)}

\* C10: in a walked tree whose directories can all be listed, the definitions
\* of the location are, once each, exactly the readable Markdown files below
\* the walked directory that have no per-file failure, and the location is
\* not the one an error names.
C10_PerFileFailureSkipped ==
    \A r \in Ran : r.d.called =>
        \A i \in 1..Len(r.d.trace) :
            LET dir == r.d.trace[i].walked
                mine == DefsOf(r.d, locations[i].Name)
                valid == {q \in MarkdownFiles(dir) : ~FileFails(r.what, q)}
            IN  (dir # <<>> /\ AllListable(dir)) =>
                    /\ r.d.err.location # locations[i].Name
                    /\ r.d.err = NoErr =>
                          /\ {mine[k].FilePath : k \in 1..Len(mine)} = valid
                          /\ Len(mine) = Cardinality(valid)

\* a walked resources tree with a failing Markdown file that is listed before a
\* valid one, which was discovered
C10_Witness ==
    /\ resDiscovery.called /\ resDiscovery.err = NoErr
    /\ \E i \in 1..Len(resDiscovery.trace) :
          LET dir == resDiscovery.trace[i].walked IN
          /\ dir # <<>>
          /\ TreePath(dir, "parse", 1) \in MarkdownFiles(dir)
          /\ FileFails("resources", TreePath(dir, "parse", 1))
          /\ \E k \in 1..Len(resDiscovery.defs) :
                resDiscovery.defs[k].FilePath = TreePath(dir, "ok", 2)


\* the directories below dir that cannot be listed, and the files below it
\* that cannot be read
UnlistableBelow(dir) == {q \in Below(dir) : fsys[q].IsDir /\ ~fsys[q].Readable}
UnreadableBelow(dir) == {q \in Below(dir) : ~fsys[q].IsDir /\ ~fsys[q].Readable}

\* C11: resource discovery of a location whose resources directory is walked
\* returns no error that names the location, whatever entry below the
\* directory cannot be read: the entry is left out and the caller sees only a
\* smaller result.
C11_EntryReadErrorAbsorbed ==
    resDiscovery.called =>
        \A i \in 1..Len(resDiscovery.trace) :
            resDiscovery.trace[i].walked # <<>>
                => resDiscovery.err.location # locations[i].Name

\* C11, the part the code keeps: a file that cannot be read is left out and
\* the readable valid files of the tree are discovered, with no error.
C11_UnreadableFileSkipped ==
    resDiscovery.called =>
        \A i \in 1..Len(resDiscovery.trace) :
            LET dir == resDiscovery.trace[i].walked IN
            (dir # <<>> /\ AllListable(dir)) =>
                /\ resDiscovery.err.location # locations[i].Name
                /\ \A k \in 1..Len(resDiscovery.defs) :
                      resDiscovery.defs[k].FilePath \notin UnreadableBelow(dir)

\* a resources tree with a valid file listed before a subdirectory that cannot
\* be listed: discovery fails for the location and returns no definition
C11_Witness ==
    /\ resDiscovery.called
    /\ \E i \in 1..Len(resDiscovery.trace) :
          LET dir == resDiscovery.trace[i].walked IN
          /\ dir # <<>>
          /\ UnlistableBelow(dir) # {}
          /\ TreePath(dir, "ok", 1) \in MarkdownFiles(dir)
          /\ resDiscovery.err.location = locations[i].Name
          /\ resDiscovery.err.cause = "open directory"
          /\ resDiscovery.defs = <<>>

\* a resources tree whose first file cannot be read and whose second file was
\* discovered
C11_WitnessUnreadableFile ==
    /\ resDiscovery.called /\ resDiscovery.err = NoErr
    /\ \E i \in 1..Len(resDiscovery.trace) :
          LET dir == resDiscovery.trace[i].walked IN
          /\ dir # <<>>
          /\ UnreadableBelow(dir) # {}
          /\ \E k \in 1..Len(resDiscovery.defs) :
                resDiscovery.defs[k].FilePath = TreePath(dir, "ok", 2)


\* the URI the specification gives the file at path below the resources
\* directory dir of the location of the given name, under the scheme sch
UriOfFile(sch, name, dir, path) ==
    LET rel == Drop(path, Len(dir) + 1) IN
    sch \o SchemeSep \o name \o Slash \o Take(rel, Len(rel) - Len(MdExt))

\* the definition of the discovery output made from the file at path
DefOfFile(d, path) ==
    d.defs[CHOOSE k \in 1..Len(d.defs) : d.defs[k].FilePath = path]

DiscoveredFiles(d) == {d.defs[k].FilePath : k \in 1..Len(d.defs)}

\* C12: every discovered resource definition has the URI
\* <configured scheme>://<location name>/<relative path without extension>.
C12_UriUsesConfiguredScheme ==
    (resDiscovery.called /\ resDiscovery.err = NoErr) =>
        \A i \in 1..Len(resDiscovery.trace) :
            LET dir == resDiscovery.trace[i].walked IN
            \A q \in MarkdownFiles(dir) \cap DiscoveredFiles(resDiscovery) :
                DefOfFile(resDiscovery, q).URI = UriOfFile(scheme, locations[i].Name, dir, q)

\* C12, what the code does: the URI is acdc://<location name>/<relative path
\* without extension> whatever scheme is configured.
C12_UriUsesAcdcScheme ==
    (resDiscovery.called /\ resDiscovery.err = NoErr) =>
        \A i \in 1..Len(resDiscovery.trace) :
            LET dir == resDiscovery.trace[i].walked IN
            \A q \in MarkdownFiles(dir) \cap DiscoveredFiles(resDiscovery) :
                DefOfFile(resDiscovery, q).URI
                    = UriOfFile(DefaultScheme, locations[i].Name, dir, q)

\* another scheme than acdc is configured and a file of a subdirectory was
\* discovered under an acdc URI
C12_Witness ==
    /\ resDiscovery.called /\ resDiscovery.err = NoErr
    /\ scheme # DefaultScheme
    /\ \E i \in 1..Len(resDiscovery.trace) :
          LET dir == resDiscovery.trace[i].walked
              q == TreePath(dir, "ok", 2)
          IN  /\ dir # <<>>
              /\ q \in DiscoveredFiles(resDiscovery)
              /\ DefOfFile(resDiscovery, q).URI
                     = DefaultScheme \o SchemeSep \o locations[i].Name \o Slash
                           \o SubDirName \o Slash \o <<Digit(2)>>


\* the pairs of places of a discovery output that hold different files
DistinctFiles(d) ==
    {p \in (1..Len(d.defs)) \X (1..Len(d.defs)) :
        d.defs[p[1]].FilePath # d.defs[p[2]].FilePath}

\* C13: two definitions of the resource discovery output made from different
\* files have different URIs, in one location or in two.
C13_UrisUnique ==
    (resDiscovery.called /\ resDiscovery.err = NoErr) =>
        \A p \in DistinctFiles(resDiscovery) :
            resDiscovery.defs[p[1]].URI # resDiscovery.defs[p[2]].URI

\* C13, the part the code keeps: two definitions of one location made from
\* different files have different URIs, and so have two definitions of any
\* locations when no location name contains a separator.
C13_UrisUniqueWithinLocation ==
    (resDiscovery.called /\ resDiscovery.err = NoErr) =>
        \A p \in DistinctFiles(resDiscovery) :
            LET x == resDiscovery.defs[p[1]]
                y == resDiscovery.defs[p[2]]
            IN  (\/ x.Source = y.Source
                 \/ \A i \in 1..Len(locations) : ~Contains(locations[i].Name, Slash))
                    => x.URI # y.URI

\* two locations with different names, a/g the second, and two definitions
\* with one URI: the file g/1.md of the first and the file 1.md of the second
C13_Witness ==
    /\ resDiscovery.called /\ resDiscovery.err = NoErr
    /\ Len(locations) >= 2
    /\ locations[1].Name # locations[2].Name
    /\ \E p \in DistinctFiles(resDiscovery) :
          LET x == resDiscovery.defs[p[1]]
              y == resDiscovery.defs[p[2]]
          IN  /\ x.Source = locations[1].Name /\ y.Source = locations[2].Name
              /\ x.URI = y.URI


\* C14: no two definitions of the prompt discovery output share the
\* namespaced name <source>:<name>.
C14_PromptNamesUnique ==
    (promptDiscovery.called /\ promptDiscovery.err = NoErr) =>
        \A k, j \in 1..Len(promptDiscovery.defs) :
            k # j => promptDiscovery.defs[k].Name # promptDiscovery.defs[j].Name

\* C14, what the code does: the name of a definition is the name of its
\* location, a colon and the name of the file's header, whatever the other
\* definitions are called.
C14_PromptNameFromHeader ==
    (promptDiscovery.called /\ promptDiscovery.err = NoErr) =>
        \A k \in 1..Len(promptDiscovery.defs) :
            LET x == promptDiscovery.defs[k] IN
            x.Name = x.Source \o <<":">> \o fsys[x.FilePath].Data.Metadata["name"]

\* two prompt files of one location whose headers carry one name, both
\* discovered under the same namespaced name
C14_Witness ==
    /\ promptDiscovery.called /\ promptDiscovery.err = NoErr
    /\ \E p \in DistinctFiles(promptDiscovery) :
          LET x == promptDiscovery.defs[p[1]]
              y == promptDiscovery.defs[p[2]]
          IN  /\ x.Source = y.Source
              /\ x.Name = y.Name
              /\ fsys[x.FilePath].Data.Metadata["name"]
                     = fsys[y.FilePath].Data.Metadata["name"]


----------------------------------------------------------------------------
(* Claims about GetPrompt.                                                 *)

\* the definition the provider serves under the name: the last of the list
ServedPrompt(name) ==
    promptDefinitions[CHOOSE i \in 1..Len(promptDefinitions) :
        /\ promptDefinitions[i].Name = name
        /\ \A j \in 1..Len(promptDefinitions) :
              promptDefinitions[j].Name = name => j <= i]

\* the required arguments of the definition that the map leaves out or sends
\* as the empty string
Unsatisfied(defn, arguments) ==
    {j \in 1..Len(defn.Arguments) :
        /\ defn.Arguments[j].Required
        /\ \A n \in DOMAIN arguments :
              n = defn.Arguments[j].Name => arguments[n] = <<>>}

\* C15: GetPrompt on a known prompt returns the validation error and renders
\* nothing when a required argument is absent from the map or empty in it,
\* and renders the template, with no error, exactly when every required
\* argument is present and not empty.
C15_RequiredArgumentsValidated ==
    (lastCall.op = "GetPrompt" /\ lastCall.name \in KnownPromptNames) =>
        LET defn == ServedPrompt(lastCall.name) IN
        IF Unsatisfied(defn, lastCall.arguments) # {}
        THEN /\ lastCall.err = "missing required argument"
             /\ lastCall.text = <<>>
             /\ ~lastCall.executed
        ELSE /\ lastCall.err = "nil"
             /\ lastCall.executed
             /\ lastCall.text = ExecuteTemplate(defn.Template, lastCall.arguments)

\* a known prompt was asked for with its required argument sent as the empty
\* string, and was refused
C15_Witness ==
    /\ lastCall.op = "GetPrompt"
    /\ lastCall.name \in KnownPromptNames
    /\ \E j \in Unsatisfied(ServedPrompt(lastCall.name), lastCall.arguments) :
          ServedPrompt(lastCall.name).Arguments[j].Name \in DOMAIN lastCall.arguments
    /\ lastCall.err = "missing required argument"
    /\ ~lastCall.executed


----------------------------------------------------------------------------
(* The prompt startup specification: prompts are discovered, the prompt    *)
(* provider is built from them, and the serving layer asks for prompts.    *)

\* valid prompt files under locations of either layout
PromptWorlds ==
    {[configs |-> cs, kinds |-> AllOk(n), subReadable |-> TRUE,
      scheme |-> DefaultScheme, names |-> PlainNames(Len(cs))] :
        cs \in WalkConfigLists, n \in 1..MaxFiles}

InitPrompts == \E w \in PromptWorlds : InitWorld(w)

\* promptProvider := prompts.NewPromptProvider(promptDefinitions), reached
\* when prompt discovery returned no error
NewPromptProviderCall ==
    /\ promptDiscovery.called /\ promptDiscovery.err = NoErr
    /\ promptDefinitions' = promptDiscovery.defs
    /\ nameMap' = NewNameMap(promptDiscovery.defs)
    /\ UNCHANGED <<files, definitions, uriMap, hasTransformer>>
    /\ UNCHANGED <<callVars, streamVars, envVars>>

NextPrompts == DiscoverPromptsCall \/ NewPromptProviderCall \/ GetPromptCall

SpecPrompts == InitPrompts /\ [][NextPrompts]_vars

\* the arguments the header of the file at path declares with a name and
\* without a required field that is the boolean false
DeclaredRequired(path) ==
    LET items == fsys[path].Data.Metadata["arguments"] IN
    {items[j]["name"] : j \in {k \in 1..Len(items) :
        /\ "name" \in DOMAIN items[k] /\ items[k]["name"] # ""
        /\ ~("required" \in DOMAIN items[k]
                /\ items[k]["required"] = BoolValue(FALSE))}}

\* the arguments the header declares with required: false
DeclaredOptional(path) ==
    LET items == fsys[path].Data.Metadata["arguments"] IN
    {items[j]["name"] : j \in {k \in 1..Len(items) :
        /\ "name" \in DOMAIN items[k] /\ "required" \in DOMAIN items[k]
        /\ items[k]["required"] = BoolValue(FALSE)}}

\* C16: an argument a prompt file declares is required unless its required
\* field is the boolean false, so also when the field is omitted: GetPrompt
\* on the discovered prompt refuses a call that leaves such an argument out,
\* and accepts a call that leaves out only arguments declared required: false.
C16_RequiredByDefault ==
    (lastCall.op = "GetPrompt" /\ lastCall.name \in KnownPromptNames) =>
        LET path == ServedPrompt(lastCall.name).FilePath
            sentWithText == {n \in DOMAIN lastCall.arguments : lastCall.arguments[n] # <<>>}
        IN  /\ DeclaredRequired(path) \ DOMAIN lastCall.arguments # {}
                  => lastCall.err = "missing required argument" /\ ~lastCall.executed
            /\ DeclaredRequired(path) \subseteq sentWithText
                  => lastCall.err = "nil" /\ lastCall.executed

\* a discovered prompt whose header declares y without a required field was
\* asked for without y, and refused
C16_Witness ==
    /\ lastCall.op = "GetPrompt"
    /\ lastCall.name \in KnownPromptNames
    /\ LET path == ServedPrompt(lastCall.name).FilePath
           items == fsys[path].Data.Metadata["arguments"]
       IN  /\ \E j \in 1..Len(items) :
                 items[j]["name"] = "y" /\ "required" \notin DOMAIN items[j]
           /\ "y" \notin DOMAIN lastCall.arguments
           /\ "x" \notin DeclaredRequired(path)
    /\ lastCall.err = "missing required argument"
    /\ ~lastCall.executed


----------------------------------------------------------------------------
(* The cross-reference transformer applied to the body of a document, and   *)
(* to what it returned.                                                    *)

InitTransform == InitXref /\ hasTransformer

\* transform := NewCrossRefTransformer(definitions, scheme), then
\* transform(content, currentDef) and transform of the result
TransformCall ==
    /\ \E i \in 1..Len(definitions) :
          /\ definitions[i].FilePath \in DOMAIN files
          /\ Bind(StripFrontmatter(files[definitions[i].FilePath]), LAMBDA content :
                Bind(CrossRefTransform(definitions, scheme, content, definitions[i]),
                     LAMBDA out :
                        lastCall' = [op |-> "Transform", uri |-> definitions[i].URI,
                                     input |-> content, content |-> out,
                                     again |-> CrossRefTransform(definitions, scheme, out,
                                                                 definitions[i])]))
    /\ opened' = opened
    /\ UNCHANGED <<provVars, streamVars, envVars>>

NextTransform == TransformCall

SpecTransform == InitTransform /\ [][NextTransform]_vars

\* the documents under test that the last call transformed
Transformed ==
    IF lastCall.op = "Transform"
    THEN {d \in UnderTest : definitions[d].URI = lastCall.uri
                               /\ lastCall.input = BodyWritten(d, tokens)}
    ELSE {}

----------------------------------------------------------------------------
(* Claims about the cross-reference transformer.                           *)

\* the part of the returned content that stands where construct i of the body
\* of document d stands
OutputPiece(d, i) ==
    SubSeq(lastCall.content,
           Len(BodyResolved(d, SubSeq(tokens, 1, i - 1), NumberedDefs)) + 1,
           Len(BodyResolved(d, SubSeq(tokens, 1, i), NumberedDefs)))

\* a link the transformer must not touch: an image, or a target that holds a
\* scheme, a colon, or is a fragment only
Skipped(tok) ==
    tok.link /\ (tok.bang \/ tok.target.kind \in {"url", "own", "mailto", "fragment"})

\* C17: a link whose target contains "://" (a URL or a URI of the configured
\* scheme), contains a colon, starts with "#", or that is an image, comes back
\* byte-identical, also when a definition has the file path the target would
\* resolve to.
C17_SkippedLinksUnchanged ==
    \A d \in Transformed :
        \A i \in 1..Len(tokens) :
            Skipped(tokens[i]) => OutputPiece(d, i) = TokenText(d, tokens[i])

\* a document of the top directory, next to the file m:a.md and to file 1, was
\* transformed with a link to m:a.md and an image of file 1 in its body
C17_Witness ==
    /\ 1 \in Transformed
    /\ \E i, j \in 1..Len(tokens) :
          /\ tokens[i].link /\ ~tokens[i].bang /\ tokens[i].target.kind = "mailto"
          /\ tokens[j].link /\ tokens[j].bang
    /\ Clean(Join(Dir(definitions[1].FilePath), ColonRelPath)) = ColonDef.FilePath
    /\ \E k \in 1..Len(definitions) : definitions[k] = ColonDef

\* the path of the file a link of the document at place d names, as its author
\* meant it: the numbered file, the file of the other location, the file 1.md
\* next to the document, or a file 9.md next to the document that does not exist
NamedFilePath(d, tok) ==
    CASE tok.target.kind = "file" -> FilePathOf(tok.target.k)
      [] tok.target.kind = "other" -> OtherDef.FilePath
      [] tok.target.kind = "bare" ->
            IF d % 2 = 0 THEN TwinDef.FilePath ELSE FilePathOf(1)
      [] tok.target.kind = "missing" ->
            BasePath \o Slash \o ACDCResourcesDir
                \o (IF d % 2 = 0 THEN <<"/", "g">> ELSE <<>>) \o <<"/", "9">> \o MdExt

\* the definitions whose file path is exactly path
DefsAt(path) == {k \in 1..Len(definitions) : definitions[k].FilePath = path}

\* C18: a link that is not skipped is resolved against the directory of the
\* document that holds it, "." and ".." collapsed, and rewritten to the URI of
\* the definition whose file path is exactly the resolved path, of whatever
\* location; the same target written in a document of another directory names
\* another file, and a link that names no definition's file is not rewritten.
C18_ResolvedAgainstDocumentDir ==
    \A d \in Transformed :
        \A i \in 1..Len(tokens) :
            tokens[i].link /\ ~Skipped(tokens[i]) =>
                IF DefsAt(NamedFilePath(d, tokens[i])) = {}
                THEN OutputPiece(d, i) = TokenText(d, tokens[i])
                ELSE \E k \in DefsAt(NamedFilePath(d, tokens[i])) :
                        OutputPiece(d, i) = LinkAround(tokens[i], definitions[k].URI)

\* the document of the subdirectory was transformed: its link to 1.md came back
\* as the URI of the file 1.md of the subdirectory, not of file 1, and its link
\* into the other location as the URI of that location's definition
C18_Witness ==
    /\ 2 \in Transformed
    /\ \E i, j \in 1..Len(tokens) :
          /\ tokens[i].link /\ tokens[i].target.kind = "bare"
          /\ OutputPiece(2, i) = LinkAround(tokens[i], TwinDef.URI)
          /\ TwinDef.URI # definitions[1].URI
          /\ tokens[j].link /\ tokens[j].target.kind = "other"
          /\ OutputPiece(2, j) = LinkAround(tokens[j], OtherDef.URI)
          /\ OtherDef.Source # definitions[2].Source

\* the parts of a link construct as written
TextOf(tok) == <<"L">>
FragmentOf(tok) == IF tok.decorated THEN LinkFragment ELSE <<>>
TitleOf(tok) == IF tok.decorated THEN LinkTitle ELSE <<>>

\* construct i came back other than written
Rewritten(d, i) == tokens[i].link /\ OutputPiece(d, i) # TokenText(d, tokens[i])

\* C19: a rewritten link is [text](uri#fragment "title") with the text, the
\* fragment and the title of the link as written and the URI of a definition
\* in place of the path, and the text between the links comes back as written.
C19_OnlyPathChanges ==
    \A d \in Transformed :
        /\ Len(lastCall.content) = Len(BodyResolved(d, tokens, NumberedDefs))
        /\ \A i \in 1..Len(tokens) :
              /\ ~tokens[i].link => OutputPiece(d, i) = TokenText(d, tokens[i])
              /\ Rewritten(d, i) =>
                    \E k \in 1..Len(definitions) :
                        OutputPiece(d, i) =
                            <<"[">> \o TextOf(tokens[i]) \o <<"]", "(">> \o definitions[k].URI
                                \o FragmentOf(tokens[i]) \o TitleOf(tokens[i]) \o <<")">>

\* a body of text followed by a link with a fragment and a title was
\* transformed, and the link was rewritten
C19_Witness ==
    \E d \in Transformed :
        /\ Len(tokens) = 2
        /\ ~tokens[1].link
        /\ tokens[2].decorated
        /\ Rewritten(d, 2)

\* construct i of the document at place d is a link that is looked up and
\* names the file of no definition
Unresolved(d, i) ==
    /\ tokens[i].link /\ ~Skipped(tokens[i])
    /\ DefsAt(NamedFilePath(d, tokens[i])) = {}

\* no link of the document at place d that is looked up names a definition
NoLinkResolves(d) ==
    \A i \in 1..Len(tokens) :
        tokens[i].link /\ ~Skipped(tokens[i]) => Unresolved(d, i)

\* C20: a link whose resolved path is the file path of no definition comes back
\* byte-identical; when no link of the body resolves the transformer returns
\* the body as it is, and transforming the result again returns it again.
C20_UnresolvedIsIdentity ==
    \A d \in Transformed :
        /\ \A i \in 1..Len(tokens) :
              Unresolved(d, i) => ~Rewritten(d, i)
        /\ NoLinkResolves(d) =>
              /\ lastCall.content = lastCall.input
              /\ lastCall.again = lastCall.content

\* a body of two links, one to a file that does not exist and one to a file no
\* definition was made of, was transformed
C20_Witness ==
    \E d \in Transformed :
        /\ Len(tokens) = 2
        /\ NoLinkResolves(d)
        /\ \E i, j \in 1..2 :
              /\ Unresolved(d, i) /\ tokens[i].target.kind = "missing"
              /\ Unresolved(d, j) /\ tokens[j].target.kind = "file"
        /\ lastCall.again = lastCall.input

----------------------------------------------------------------------------
(* The startup specification: CreateMCPServer discovers, builds the two     *)
(* providers, indexes the resources and returns the server.                *)

StartupWorlds ==
    {[configs |-> cs, kinds |-> ks, subReadable |-> TRUE,
      scheme |-> DefaultScheme, names |-> PlainNames(Len(cs))] :
        cs \in WalkConfigLists,
        ks \in {AllOk(n) : n \in 1..MaxFiles}
                 \cup {[k \in 1..n |-> IF k = 1 THEN "parse" ELSE "ok"] : n \in 2..MaxFiles}}

InitStartup == \E w \in StartupWorlds : InitWorld(w)

\* resourceProvider := resources.NewResourceProvider(resourceDefinitions),
\* reached when resource discovery returned no error; the new provider has
\* served no call yet
NewResourceProviderCall ==
    /\ resDiscovery.called /\ resDiscovery.err = NoErr
    /\ definitions' = resDiscovery.defs
    /\ uriMap' = NewUriMap(resDiscovery.defs)
    /\ lastCall' = NoCall
    /\ opened' = <<>>
    /\ UNCHANGED <<files, hasTransformer, promptDefinitions, nameMap>>
    /\ UNCHANGED <<streamVars, envVars>>

NextStartupList == DiscoverResourcesCall \/ NewResourceProviderCall \/ ListResourcesCall

SpecStartupList == InitStartup /\ [][NextStartupList]_vars

\* what the walk of location i alone produces, with the adapter the discovery
\* used for it
WalkedAlone(i) ==
    DiscoverResources(fsys, AdapterNamed(resDiscovery.trace[i].adapter),
                      [Name |-> locations[i].Name, BasePath |-> locations[i].Path,
                       AdapterType |-> locations[i].Type]).defs

\* the walks of the locations 1..i, one after the other
RECURSIVE WalkedUpTo(_)
WalkedUpTo(i) == IF i = 0 THEN <<>> ELSE WalkedUpTo(i - 1) \o WalkedAlone(i)

\* the provider holds the output of a resource discovery that did not fail
ResourceProviderBuilt ==
    /\ resDiscovery.called /\ resDiscovery.err = NoErr
    /\ definitions = resDiscovery.defs

\* C21: ListResources returns one entry per discovered definition: the
\* definitions of the first configured location in the order its walk produced
\* them, then those of the second, and so on; none dropped, doubled or moved.
C21_ListInDiscoveryOrder ==
    (ResourceProviderBuilt /\ lastCall.op = "ListResources") =>
        /\ Len(lastCall.result) = Len(WalkedUpTo(Len(locations)))
        /\ \A k \in 1..Len(lastCall.result) :
              /\ lastCall.result[k].URI = WalkedUpTo(Len(locations))[k].URI
              /\ lastCall.result[k].Name = WalkedUpTo(Len(locations))[k].Name

\* two locations with two files each were discovered and listed: the files of
\* the first location stand before those of the second
C21_Witness ==
    /\ ResourceProviderBuilt /\ lastCall.op = "ListResources"
    /\ Len(locations) = 2
    /\ Len(lastCall.result) = 4
    /\ \A k \in 1..2 : definitions[k].Source = locations[1].Name
    /\ \A k \in 3..4 : definitions[k].Source = locations[2].Name
    /\ lastCall.result[1].URI # lastCall.result[4].URI

----------------------------------------------------------------------------
(* Claims about definitions that share a key.                              *)

\* the greatest place of a set of places
LastPlace(S) == CHOOSE k \in S : \A j \in S : j <= k

\* the places of the definitions that carry the URI, and the name
PlacesOfURI(uri) == {i \in 1..Len(definitions) : definitions[i].URI = uri}
PlacesOfName(name) == {i \in 1..Len(promptDefinitions) : promptDefinitions[i].Name = name}

\* C22: when definitions share a key the lookups use the last of them:
\* ReadResource opens the file of the last definition with the URI, GetPrompt
\* validates and renders with the last definition with the name; the lists
\* still hold every definition, the earlier ones included.
C22_LaterDefinitionShadows ==
    /\ (lastCall.op = "ReadResource" /\ PlacesOfURI(lastCall.uri) # {}) =>
          opened = <<definitions[LastPlace(PlacesOfURI(lastCall.uri))].FilePath>>
    /\ (lastCall.op = "GetPrompt" /\ PlacesOfName(lastCall.name) # {}) =>
          LET defn == promptDefinitions[LastPlace(PlacesOfName(lastCall.name))] IN
          /\ \A j \in 1..Len(lastCall.validated) :
                j <= Len(defn.Arguments) /\ lastCall.validated[j] = defn.Arguments[j].Name
          /\ lastCall.executed =>
                /\ Len(lastCall.validated) = Len(defn.Arguments)
                /\ lastCall.text = ExecuteTemplate(defn.Template, lastCall.arguments)
    /\ lastCall.op = "ListResources" =>
          /\ Len(lastCall.result) = Len(definitions)
          /\ \A i \in 1..Len(definitions) : lastCall.result[i].URI = definitions[i].URI
                                            /\ lastCall.result[i].Name = definitions[i].Name
    /\ lastCall.op = "ListPrompts" =>
          /\ Len(lastCall.result) = Len(promptDefinitions)
          /\ \A i \in 1..Len(promptDefinitions) :
                lastCall.result[i].Name = promptDefinitions[i].Name

\* the URI that two definitions share was read: the file of the second was
\* opened, not that of the first
C22_Witness ==
    /\ lastCall.op = "ReadResource" /\ lastCall.err = "nil"
    /\ Cardinality(PlacesOfURI(lastCall.uri)) = 2
    /\ 1 \in PlacesOfURI(lastCall.uri)
    /\ opened # <<definitions[1].FilePath>>
    /\ Cardinality(PlacesOfName(PromptName(<<"p">>))) = 2

----------------------------------------------------------------------------
(* The search tool handler, with the search service as the environment.    *)

\* the most results one Search returns
MaxResults == 2

QueryPool == {<<"q">>, <<"q", " ", "r">>, <<>>}
SourcePool == {<<>>, <<"a">>, <<"b">>}

ResultPool ==
    {[Name |-> <<"n", "1">>, URI |-> ResourceURI(<<"a">>, <<"1">> \o MdExt),
      Snippet |-> <<"s", "1">>, Source |-> <<"a">>],
     [Name |-> <<"n", "2">>, URI |-> ResourceURI(<<"b">>, <<"2">> \o MdExt),
      Snippet |-> <<"s", "2">>, Source |-> <<"b">>],
     [Name |-> <<"n", "3">>, URI |-> ResourceURI(<<"a">>, <<"3">> \o MdExt),
      Snippet |-> <<"s", "3">>, Source |-> <<>>]}

\* what one call of Search can return: results and no error, or an error
SearchOutcomes ==
    {[results |-> rs, err |-> "nil"] : rs \in SeqsUpTo(ResultPool, MaxResults)}
    \cup {[results |-> <<>>, err |-> e] : e \in {"index closed", "bad query"}}

\* opts == nil, and &search.SearchOptions{Source: source}
NilOptions == [isNil |-> TRUE]
SearchOptions(source) == [isNil |-> FALSE, Source |-> source]

\* one line of the result text per result
RECURSIVE ResultLines(_)
ResultLines(results) ==
    IF results = <<>> THEN <<>>
    ELSE LET r == Head(results) IN
         (IF r.Source # <<>>
          THEN <<"- [">> \o r.Source \o <<"] [">> \o r.Name \o <<"](">> \o r.URI
                   \o <<"): ">> \o r.Snippet \o <<"\n\n">>
          ELSE <<"- [">> \o r.Name \o <<"](">> \o r.URI \o <<"): ">> \o r.Snippet
                   \o <<"\n\n">>)
         \o ResultLines(Tail(results))

\* the text of the tool result
ResultText(args, results) ==
    IF Len(results) = 0
    THEN IF args.Source # <<>>
         THEN <<"No results found for '">> \o args.Query \o <<"' in source '">>
                  \o args.Source \o <<"'">>
         ELSE <<"No results found for '">> \o args.Query \o <<"'">>
    ELSE (IF args.Source # <<>>
          THEN <<"Search results for '">> \o args.Query \o <<"' in source '">>
                   \o args.Source \o <<"':\n\n">>
          ELSE <<"Search results for '">> \o args.Query \o <<"':\n\n">>)
         \o ResultLines(results)

\* the handler that hands options to Search whatever the source
SearchToolHandlerAlwaysOptions(args, outcome) ==
    LET opts == SearchOptions(args.Source) IN
    IF outcome.err # "nil"
    THEN [calls |-> <<[query |-> args.Query, opts |-> opts]>>,
          hasResult |-> FALSE, text |-> <<>>, err |-> outcome.err]
    ELSE [calls |-> <<[query |-> args.Query, opts |-> opts]>>,
          hasResult |-> TRUE, text |-> ResultText(args, outcome.results), err |-> "nil"]

\* the handler NewSearchToolHandler returns, applied to args when Search
\* returns outcome: the calls of Search it makes and what it returns
SearchToolHandler(args, outcome) ==
    LET opts == IF args.Source # <<>> THEN SearchOptions(args.Source) ELSE NilOptions IN
    IF outcome.err # "nil"
    THEN [calls |-> <<[query |-> args.Query, opts |-> opts]>>,
          hasResult |-> FALSE, text |-> <<>>, err |-> outcome.err]
    ELSE [calls |-> <<[query |-> args.Query, opts |-> opts]>>,
          hasResult |-> TRUE, text |-> ResultText(args, outcome.results), err |-> "nil"]

\* a provider of nothing, no call made
InitTools ==
    /\ ProviderBuilt(<<>>, <<>>)
    /\ files = <<>>
    /\ hasTransformer = FALSE
    /\ lastCall = NoCall
    /\ opened = <<>>
    /\ StreamIdle
    /\ EnvIdle

SearchToolCall ==
    /\ \E q \in QueryPool, src \in SourcePool, outcome \in SearchOutcomes :
          LET r == SearchToolHandler([Query |-> q, Source |-> src], outcome) IN
          lastCall' = [op |-> "SearchTool", query |-> q, source |-> src,
                       outcome |-> outcome, calls |-> r.calls,
                       hasResult |-> r.hasResult, text |-> r.text, err |-> r.err]
    /\ opened' = <<>>
    /\ UNCHANGED <<provVars, streamVars, envVars>>

NextTools == SearchToolCall

SpecTools == InitTools /\ [][NextTools]_vars

\* C23: the search tool handler calls Search once, with the query of the
\* request as it is, with nil options when the source of the request is empty
\* and with options that carry the source otherwise; when Search fails the
\* handler returns that error and no result, and has not called Search again.
C23_SearchCalledOnce ==
    lastCall.op = "SearchTool" =>
        /\ Len(lastCall.calls) = 1
        /\ lastCall.calls[1].query = lastCall.query
        /\ lastCall.source = <<>> => lastCall.calls[1].opts = NilOptions
        /\ lastCall.source # <<>> =>
              /\ ~lastCall.calls[1].opts.isNil
              /\ lastCall.calls[1].opts.Source = lastCall.source
        /\ lastCall.outcome.err # "nil" =>
              /\ lastCall.err = lastCall.outcome.err
              /\ ~lastCall.hasResult

\* a request without a source whose Search failed
C23_Witness ==
    /\ lastCall.op = "SearchTool"
    /\ lastCall.source = <<>>
    /\ lastCall.query # <<>>
    /\ lastCall.outcome.err = "index closed"
    /\ lastCall.err = "index closed"

----------------------------------------------------------------------------
(* CreateMCPServer from the discoveries to its return.                     *)

\* what indexing the resources can come to: the index was built, or its
\* construction failed
IndexOutcomes == {"nil", "index failed"}

PromptProviderBuilt ==
    /\ promptDiscovery.called /\ promptDiscovery.err = NoErr
    /\ promptDefinitions = promptDiscovery.defs

\* IndexResources(ctx, resourceProvider, searchService) as a statement, then
\* mcp.CreateServer and return mcpServer, cleanup, nil
IndexResourcesCall ==
    /\ ResourceProviderBuilt /\ PromptProviderBuilt
    /\ \E indexed \in IndexOutcomes :
          lastCall' = [op |-> "CreateMCPServer", indexErr |-> indexed,
                       server |-> TRUE, err |-> "nil"]
    /\ opened' = <<>>
    /\ UNCHANGED <<provVars, streamVars, envVars>>

\* return nil, nil, fmt.Errorf("failed to discover ...: %w", err)
DiscoveryFailedReturn ==
    /\ \/ /\ resDiscovery.called /\ resDiscovery.err # NoErr
          /\ lastCall' = [op |-> "CreateMCPServer", indexErr |-> "nil", server |-> FALSE,
                          err |-> "failed to discover resources"]
       \/ /\ ResourceProviderBuilt
          /\ promptDiscovery.called /\ promptDiscovery.err # NoErr
          /\ lastCall' = [op |-> "CreateMCPServer", indexErr |-> "nil", server |-> FALSE,
                          err |-> "failed to discover prompts"]
    /\ opened' = <<>>
    /\ UNCHANGED <<provVars, streamVars, envVars>>

NextStartup ==
    \/ DiscoverResourcesCall
    \/ NewResourceProviderCall
    \/ DiscoverPromptsCall
    \/ NewPromptProviderCall
    \/ IndexResourcesCall
    \/ DiscoveryFailedReturn

\* the worlds of the startup, and those in which the resources directory of a
\* location is missing
InitStartupAny ==
    \/ InitStartup
    \/ \E cs \in UNION {[1..n -> ResolveConfigs] : n \in 1..1} :
          InitWorld([configs |-> cs, kinds |-> <<"ok">>, subReadable |-> TRUE,
                     scheme |-> DefaultScheme, names |-> PlainNames(Len(cs))])

SpecStartup == InitStartupAny /\ [][NextStartup]_vars

\* C24: when the construction of the index fails, CreateMCPServer returns an
\* error and no server.
C24_IndexFailureIsFatal ==
    (lastCall.op = "CreateMCPServer" /\ lastCall.indexErr # "nil") =>
        /\ lastCall.err # "nil"
        /\ ~lastCall.server

\* a failed discovery is what makes CreateMCPServer return an error
C24_OnlyDiscoveryIsFatal ==
    lastCall.op = "CreateMCPServer" =>
        (lastCall.err # "nil" <=> ~lastCall.server)
        /\ (lastCall.err # "nil" =>
               \/ (resDiscovery.called /\ resDiscovery.err # NoErr)
               \/ (promptDiscovery.called /\ promptDiscovery.err # NoErr))

\* the index could not be built and CreateMCPServer returned a server and no
\* error
C24_Witness ==
    /\ lastCall.op = "CreateMCPServer"
    /\ lastCall.indexErr = "index failed"
    /\ lastCall.server /\ lastCall.err = "nil"
    /\ Len(definitions) >= 2

----------------------------------------------------------------------------
(* The concurrent specification: StreamResources runs in its goroutine     *)
(* while the serving layer calls both providers.                           *)

\* the prompt lists of the concurrent specification: none, and two prompts of
\* one name
SharedPromptLists ==
    {<<>>} \cup {l \in PromptLists : Len(l) = 2 /\ l[1].Name = l[2].Name}

\* the definition lists of the concurrent specification: every file with its
\* own URI, and the longest list with the one URI of file 1
SharedDefinitionLists ==
    DiscoveredLists \cup {[i \in 1..MaxDefs |-> ResDef(i, 1)]}

InitConcurrent ==
    /\ \E defs \in SharedDefinitionLists, pdefs \in SharedPromptLists :
          /\ ProviderBuilt(defs, pdefs)
          /\ files = DiskOf(defs)
    /\ hasTransformer = FALSE
    /\ lastCall = NoCall
    /\ opened = <<>>
    /\ spc = "idle" /\ sidx = 0 /\ sdoc = NoDoc /\ sresult = "none"
    /\ ctxDone = FALSE /\ ch = <<>> /\ consumerActive = TRUE
    /\ chanCap \in 0..MaxChanCap
    /\ sent = <<>> /\ readOk = {} /\ cancelAt = NoCancel /\ readAfterCancel = {}
    /\ EnvIdle

NextConcurrent ==
    \/ StreamStart
    \/ StreamCheck
    \/ StreamRead
    \/ StreamSend
    \/ StreamSendCancelled
    \/ Cancel
    \/ Receive
    \/ ReadResourceCall
    \/ GetPromptCall
    \/ ListResourcesCall
    \/ ListPromptsCall

SpecConcurrent == InitConcurrent /\ [][NextConcurrent]_vars

\* C25: no step of any interleaving of ListResources, ReadResource,
\* StreamResources, ListPrompts and GetPrompt writes the definition lists or
\* the lookup tables, which stay what the constructors made of the lists.
C25_ProviderStateImmutable ==
    /\ [][/\ definitions' = definitions /\ uriMap' = uriMap
          /\ promptDefinitions' = promptDefinitions /\ nameMap' = nameMap]_vars
    /\ [](/\ uriMap = NewUriMap(definitions)
          /\ nameMap = NewNameMap(promptDefinitions)
          /\ lastCall.op = "ListResources" => Len(lastCall.result) = Len(definitions)
          /\ lastCall.op = "ListPrompts" => Len(lastCall.result) = Len(promptDefinitions))

\* while StreamResources waits to send its second Document, after a
\* cancellation, the serving layer has rendered a prompt
C25_Witness ==
    /\ spc = "send" /\ sidx = 2 /\ ctxDone
    /\ lastCall.op = "GetPrompt" /\ lastCall.err = "nil"
    /\ Len(definitions) = MaxDefs
    /\ Len(promptDefinitions) = 2

----------------------------------------------------------------------------
(* The authentication middleware in front of a handler.                    *)

\* subtle.ConstantTimeCompare(x, y): 1 when the two have the same length and
\* the same bytes, 0 otherwise
ConstantTimeCompare(x, y) ==
    IF Len(x) = Len(y) /\ \A i \in 1..Len(x) : x[i] = y[i] THEN 1 ELSE 0

\* an absent header or query parameter, and one with a value
Absent == [present |-> FALSE, value |-> <<>>]
Given(v) == [present |-> TRUE, value |-> v]

\* Header.Get and Query().Get: the value, or "" when there is none
GetValue(field) == IF field.present THEN field.value ELSE <<>>

\* r.BasicAuth(): the Authorization header must be of the Basic scheme and its
\* decoded text must hold a colon; the user is what stands before the first
\* colon and the password what stands after it
BasicAuth(r) ==
    IF ~r.authorization.present \/ r.authorization.value.scheme # "Basic"
    THEN [ok |-> FALSE, user |-> <<>>, pass |-> <<>>]
    ELSE LET text == r.authorization.value.decoded
             idx == Index(text, <<":">>)
         IN  IF idx < 0 THEN [ok |-> FALSE, user |-> <<>>, pass |-> <<>>]
             ELSE [ok |-> TRUE, user |-> Take(text, idx), pass |-> Drop(text, idx + 1)]

Unauthorized(challenge) == [reached |-> FALSE, status |-> 401, challenge |-> challenge]
Served == [reached |-> TRUE, status |-> 200, challenge |-> FALSE]

\* the handler basicAuthMiddleware(settings) puts in front of next
basicAuthMiddleware(settings, r) ==
    LET cred == BasicAuth(r) IN
    IF \/ ~cred.ok
       \/ ConstantTimeCompare(cred.user, settings.Username) # 1
       \/ ConstantTimeCompare(cred.pass, settings.Password) # 1
    THEN Unauthorized(TRUE)
    ELSE Served

\* the handler that reads the query parameter before the header
apiKeyMiddlewareQueryFirst(apiKey, r) ==
    LET q == GetValue(r.queryKey)
        key == IF q = <<>> THEN GetValue(r.headerKey) ELSE q
    IN  IF ConstantTimeCompare(key, apiKey) # 1 THEN Unauthorized(FALSE) ELSE Served

\* the handler apiKeyMiddleware(apiKey) puts in front of next
apiKeyMiddleware(apiKey, r) ==
    LET h == GetValue(r.headerKey)
        key == IF h = <<>> THEN GetValue(r.queryKey) ELSE h
    IN  IF ConstantTimeCompare(key, apiKey) # 1 THEN Unauthorized(FALSE) ELSE Served

\* NewMiddleware(settings), applied to a request
NewMiddleware(settings, r) ==
    CASE settings.Type \in {"none", ""} -> Served
      [] settings.Type = "basic" -> basicAuthMiddleware(settings.Basic, r)
      [] settings.Type = "apikey" -> apiKeyMiddleware(settings.APIKey, r)

UserPool == {<<>>, <<"u">>}
PassPool == {<<>>, <<"p">>, <<"q">>}
KeyPool == {<<>>, <<"k">>, <<"j">>}

AuthSettingsPool ==
    {[Type |-> "basic", Basic |-> [Username |-> u, Password |-> pw], APIKey |-> <<>>] :
        u \in UserPool, pw \in PassPool}
    \cup {[Type |-> "apikey", Basic |-> [Username |-> <<>>, Password |-> <<>>],
           APIKey |-> k] : k \in KeyPool}
    \cup {[Type |-> "none", Basic |-> [Username |-> <<>>, Password |-> <<>>],
           APIKey |-> <<>>]}

\* the Authorization headers: none, the Basic scheme around user:password,
\* around a text without a colon, and another scheme
AuthorizationPool ==
    {Absent}
    \cup {Given([scheme |-> "Basic", decoded |-> u \o <<":">> \o pw]) :
            u \in UserPool, pw \in PassPool}
    \cup {Given([scheme |-> "Basic", decoded |-> <<"u", "p">>]),
          Given([scheme |-> "Bearer", decoded |-> <<"u", ":", "p">>])}

KeyFields == {Absent} \cup {Given(k) : k \in KeyPool}

RequestPool ==
    {[authorization |-> a, headerKey |-> h, queryKey |-> q] :
        a \in AuthorizationPool, h \in KeyFields, q \in KeyFields}

InitAuth ==
    /\ ProviderBuilt(<<>>, <<>>)
    /\ files = <<>>
    /\ hasTransformer = FALSE
    /\ lastCall = NoCall
    /\ opened = <<>>
    /\ StreamIdle
    /\ tokens = <<>> /\ locations = <<>> /\ fsys = <<>>
    /\ resDiscovery = NoDiscovery /\ promptDiscovery = NoDiscovery
    /\ scheme = DefaultScheme
    /\ authSettings \in AuthSettingsPool

\* one request through the middleware
ServeHTTPCall ==
    /\ \E r \in RequestPool :
          LET out == NewMiddleware(authSettings, r) IN
          lastCall' = [op |-> "ServeHTTP", request |-> r, reached |-> out.reached,
                       status |-> out.status, challenge |-> out.challenge]
    /\ opened' = <<>>
    /\ UNCHANGED <<provVars, streamVars, envVars>>

NextAuth == ServeHTTPCall

SpecAuth == InitAuth /\ [][NextAuth]_vars

\* the credentials a request carries for the Basic scheme
CarriesBasic(r, user, pass) ==
    /\ r.authorization.present
    /\ r.authorization.value.scheme = "Basic"
    /\ r.authorization.value.decoded = user \o <<":">> \o pass

\* the key a request carries: the header value unless it is empty, then the
\* query parameter
CarriedKey(r) ==
    IF r.headerKey.present /\ r.headerKey.value # <<>> THEN r.headerKey.value
    ELSE IF r.queryKey.present THEN r.queryKey.value ELSE <<>>

Keyless(r) == ~r.headerKey.present /\ ~r.queryKey.present

\* C30: under API-key authentication a request that carries no key at all never
\* reaches the wrapped handler, whatever the configured key, the empty string
\* included.
C30_KeylessNeverReaches ==
    (/\ lastCall.op = "ServeHTTP"
     /\ authSettings.Type = "apikey"
     /\ Keyless(lastCall.request)) => ~lastCall.reached

\* a request without a key reaches the handler only when the configured key is
\* the empty string
C30_KeylessReachesOnlyEmptyKey ==
    (/\ lastCall.op = "ServeHTTP"
     /\ authSettings.Type = "apikey"
     /\ Keyless(lastCall.request)) => (lastCall.reached <=> authSettings.APIKey = <<>>)

\* the middleware made from an empty key served a request without a key
C30_Witness ==
    /\ lastCall.op = "ServeHTTP"
    /\ authSettings.Type = "apikey" /\ authSettings.APIKey = <<>>
    /\ Keyless(lastCall.request)
    /\ lastCall.reached /\ lastCall.status = 200

----------------------------------------------------------------------------
(* The cross-reference transformer applied twice, over trees whose          *)
(* directory names are any names a disk can hold.                          *)

\* a directory name with a closing parenthesis and a bracketed text in it
OddDirName == <<"a", ")", "[", "b", "]", "(", "1">> \o MdExt \o <<")">>

\* the directory below the resources directory that holds the files: the
\* resources directory itself, g, or the directory with the odd name
TwiceDirs == {<<>>, SubDirName, OddDirName}

TwiceRelPath(dir, k) ==
    (IF dir = <<>> THEN <<>> ELSE dir \o Slash) \o <<Digit(k)>> \o MdExt

\* the definition the walk makes of file k of the directory
TwiceDef(dir, k) ==
    [URI |-> ResourceURI(SourceName, TwiceRelPath(dir, k)), Name |-> <<"n", Digit(k)>>,
     FilePath |-> Join(Join(BasePath, ACDCResourcesDir), TwiceRelPath(dir, k)),
     Keywords |-> <<Digit(k)>>, Source |-> SourceName]

\* the constructs of a body: text, a link to a numbered file of the same
\* directory (with and without fragment and title), to a file that does not
\* exist and to a URL
TwiceTokens ==
    {[link |-> FALSE, bang |-> FALSE, target |-> [kind |-> "none", k |-> 0], decorated |-> FALSE]}
    \cup {[link |-> TRUE, bang |-> FALSE, target |-> [kind |-> "bare", k |-> k],
           decorated |-> FALSE] : k \in 1..MaxDefs}
    \cup {[link |-> TRUE, bang |-> FALSE, target |-> [kind |-> "bare", k |-> 1],
           decorated |-> TRUE],
          [link |-> TRUE, bang |-> FALSE, target |-> [kind |-> "missing", k |-> 9],
           decorated |-> FALSE],
          [link |-> TRUE, bang |-> FALSE, target |-> [kind |-> "url", k |-> 0],
           decorated |-> FALSE]}

TwiceTokenText(tok) ==
    IF ~tok.link THEN <<"t", " ">>
    ELSE LinkAround(tok, IF tok.target.kind = "url" THEN TargetText(1, tok.target)
                         ELSE <<Digit(tok.target.k)>> \o MdExt)

RECURSIVE TwiceBody(_)
TwiceBody(toks) ==
    IF toks = <<>> THEN <<>> ELSE TwiceTokenText(Head(toks)) \o TwiceBody(Tail(toks))

InitTwice ==
    /\ \E dir \in TwiceDirs, n \in 1..MaxDefs, d \in 1..MaxDefs,
          toks \in SeqsUpTo(TwiceTokens, MaxLinks) :
          /\ d <= n /\ toks # <<>>
          /\ ProviderBuilt([i \in 1..n |-> TwiceDef(dir, i)], <<>>)
          /\ tokens = toks
          /\ files = [fp \in {TwiceDef(dir, i).FilePath : i \in 1..n} |->
                        LET i == CHOOSE k \in 1..n : TwiceDef(dir, k).FilePath = fp IN
                        Header \o (IF i = d THEN TwiceBody(toks) ELSE BodyOf(i))]
    /\ hasTransformer = TRUE
    /\ lastCall = NoCall
    /\ opened = <<>>
    /\ StreamIdle
    /\ locations = <<>> /\ fsys = <<>>
    /\ resDiscovery = NoDiscovery /\ promptDiscovery = NoDiscovery
    /\ scheme = DefaultScheme
    /\ authSettings = NoAuth

NextTwice == TransformCall

SpecTwice == InitTwice /\ [][NextTwice]_vars

\* C27: the transformer applied to its own result returns that result, for
\* every body and every definition set discovery produces.
C27_TransformIdempotent ==
    lastCall.op = "Transform" => lastCall.again = lastCall.content

\* no URI of the provider holds a closing parenthesis or white space
UrisPlain ==
    \A i \in 1..Len(definitions) :
        \A j \in 1..Len(definitions[i].URI) :
            definitions[i].URI[j] # ")" /\ ~IsSpace(definitions[i].URI[j])

\* the transformer applied to its own result returns that result when no URI
\* holds a closing parenthesis or white space
C27_IdempotentOverPlainUris ==
    (lastCall.op = "Transform" /\ UrisPlain) => lastCall.again = lastCall.content

\* a body was rewritten, and rewritten again when its result was transformed
C27_Witness ==
    /\ lastCall.op = "Transform"
    /\ lastCall.content # lastCall.input
    /\ lastCall.again # lastCall.content

\* a body with a link to a file of its directory was rewritten and its result
\* came back unchanged
C27_WitnessPlain ==
    /\ lastCall.op = "Transform" /\ UrisPlain
    /\ lastCall.content # lastCall.input
    /\ lastCall.again = lastCall.content

----------------------------------------------------------------------------
(* Claims about the Documents StreamResources sends.                       *)

\* the body of the file of the definition at place i, as the disk of the
\* streaming specification holds it
OwnBody(i) == StripFrontmatter(DiskOf(definitions)[definitions[i].FilePath])

\* C28: every Document sent carries the body of the file of the definition
\* that supplied its URI, Name, Keywords and Source, for every definition
\* list, lists with a shared URI included.
C28_DocumentsCoherent ==
    /\ Len(sent) = Len(SentPlaces)
    /\ \A k \in 1..Len(sent) :
          LET defn == definitions[SentPlaces[k]] IN
          /\ sent[k].URI = defn.URI /\ sent[k].Name = defn.Name
          /\ sent[k].Keywords = defn.Keywords /\ sent[k].Source = defn.Source
          /\ sent[k].Content = OwnBody(SentPlaces[k])

\* every Document sent carries the URI, Name, Keywords and Source of its
\* definition and the body of the file of the last definition with that URI
C28_ContentOfLastWithUri ==
    /\ Len(sent) = Len(SentPlaces)
    /\ \A k \in 1..Len(sent) :
          LET defn == definitions[SentPlaces[k]] IN
          /\ sent[k].URI = defn.URI /\ sent[k].Name = defn.Name
          /\ sent[k].Keywords = defn.Keywords /\ sent[k].Source = defn.Source
          /\ sent[k].Content = OwnBody(LastPlace(PlacesOfURI(defn.URI)))

\* the Document of the first definition was sent with the body of the file of
\* a later definition that has the same URI
C28_Witness ==
    /\ Len(sent) > 0
    /\ sent[1].Name = definitions[1].Name
    /\ sent[1].Content # OwnBody(1)
    /\ \E j \in 2..Len(definitions) :
          definitions[j].URI = definitions[1].URI /\ sent[1].Content = OwnBody(j)

\* C29: once the context is cancelled StreamResources sends at most one more
\* Document, that of the iteration the cancellation arrived in, and reads no
\* resource in a later iteration.
C29_AtMostOneAfterCancel ==
    ctxDone =>
        /\ Len(sent) <= cancelAt.sent + 1
        /\ Len(sent) > cancelAt.sent =>
              /\ cancelAt.pc \in {"read", "send"}
              /\ sent[Len(sent)].URI = definitions[cancelAt.idx].URI
              /\ sent[Len(sent)].Name = definitions[cancelAt.idx].Name
        /\ readAfterCancel \subseteq {cancelAt.idx}
        /\ readAfterCancel # {} => cancelAt.pc = "read"
        /\ spc = "read" => sidx = cancelAt.idx

\* the context was cancelled while a resource was being read, its Document was
\* sent all the same, and the loop returned the cancellation error with
\* definitions left
C29_Witness ==
    /\ ctxDone /\ cancelAt.pc = "read"
    /\ Len(sent) = cancelAt.sent + 1
    /\ readAfterCancel = {cancelAt.idx}
    /\ spc = "done" /\ sresult = "canceled"
    /\ sidx <= Len(definitions)

====
